---- MODULE Spec2Model ----
(***************************************************************************)
(* A model of the dreamberd-py tree-walking evaluator                      *)
(* (src/src/interpreter/*.py, driven by src/src/__main__.py).              *)
(*                                                                         *)
(* Python objects with identity (Scope, Variable, Class, Coroutine) live   *)
(* in heaps: sequences indexed by the object's allocation number, with 0   *)
(* standing for None.  A runtime Value is a record                         *)
(*     [type, i, s, ref]                                                   *)
(* where `type` is the ValueType tag, `i` the payload of the numeric and   *)
(* handle-like kinds (Int, Bool, Function, Coroutine, Object), `s` the     *)
(* payload of String, and `ref` the Variable the value was read from.      *)
(*                                                                         *)
(* The evaluator is the recursive operator visit(S, expr), which threads   *)
(* the interpreter state S through the handlers exactly as the Python      *)
(* methods mutate `self`.  One action of the model is the main loop        *)
(* evaluating one top-level statement.                                     *)
(***************************************************************************)
EXTENDS Integers, Sequences, FiniteSets, TLC

VARIABLES
    tokens,          \* Parser.tokens: the tokens of the source file; empty when
                     \* the statements are supplied without a source
    index,           \* Parser.index: the place of Parser.current in tokens
    deleted,         \* Parser.deleted: the deleted keyword kinds
    parser_id,       \* Parser.id: the number of the next anonymous function
    ast,             \* Interpreter.ast: the program, when it is given as a whole
    pc,              \* the place of the loop of main in ast; 0 when the
                     \* statements are supplied one at a time
    stdout,          \* the lines written to sys.stdout
    scopes,          \* heap of Scope objects
    scope,           \* Interpreter.scope: the current Scope
    bindings,        \* heap of Variable objects
    classobjs,       \* heap of Class objects
    coroobjs,        \* heap of Coroutine objects
    arrayobjs,       \* heap of Array objects
    special_values,  \* SPECIAL_VALUES: the Value objects of true, false, maybe,
                     \* null and undefined, shared by every evaluation
    coroutines,      \* Interpreter.coroutines: the pending queue
    deleted_values,  \* Interpreter.deleted_values
    filename,        \* Interpreter.filename
    files,           \* Interpreter.files
    exports,         \* Interpreter.exports
    status,          \* running | done | error | crash | hang
    message,         \* the diagnostic or the uncaught exception
    last,            \* the statement the main loop evaluated last, and its result
    since_call       \* the last declaration from a call the main loop evaluated,
                     \* and the newline markers it has evaluated since

vars == <<tokens, index, deleted, parser_id, ast, pc, stdout, scopes, scope, bindings, classobjs, coroobjs, coroutines,
          arrayobjs, special_values, deleted_values, filename, files, exports, status, message, last, since_call>>

----------------------------------------------------------------------------
(* Bounds of the model                                                     *)

MaxBindings == 2
MaxScopes == 3
MaxClasses == 2
MaxCoros == 2
MaxArrays == 1
MaxDepth == 4
MaxDrain == 8
MaxNewlines == 2
MaxProgram == 4
MaxOutput == 2
MaxInt == 2
MaxLines == 2
MaxElements == 3

----------------------------------------------------------------------------
(* Values (value.py)                                                       *)

\* A Value: its ValueType, its payload and its back-reference.  A number
\* payload is i, a text payload is s.  py names the Python type of the
\* payload when it is not the type the ValueType stands for: tier-1
\* comparison replaces the payload of its right operand and leaves the
\* ValueType alone (interpreter.py:56-62).
Value(v, t) == [type |-> t, i |-> v, s |-> "", ref |-> 0, py |-> ""]

StringValue(str) == [type |-> "String", i |-> 0, s |-> str, ref |-> 0, py |-> ""]

undefined == [type |-> "Undefined", i |-> 0, s |-> "", ref |-> 0, py |-> ""]

\* Python's None in an Optional[Value] slot
None == [type |-> "NoneType", i |-> 0, s |-> "", ref |-> 0, py |-> ""]

BoolFalse == 0
BoolTrue == 1
BoolMaybe == 2

SPECIAL_NAMES == {"true", "false", "maybe", "null", "undefined"}

SPECIAL_VALUES(name) ==
    CASE name = "true" -> Value(BoolTrue, "Bool")
      [] name = "false" -> Value(BoolFalse, "Bool")
      [] name = "maybe" -> Value(BoolMaybe, "Bool")
      [] name = "null" -> Value(0, "Null")
      [] OTHER -> undefined

\* Python's == on the payloads of two values: numbers (an IntEnum member
\* included) compare by number, strings by text, None equals None, handles
\* by identity, and payloads of different kinds are unequal.
\* the Python type of a value's payload
PyType(v) ==
    IF v.py # "" THEN v.py
    ELSE CASE v.type \in {"Int", "Digit", "Float"} -> "int"
           [] v.type \in {"String", "Char"} -> "str"
           [] v.type \in {"Null", "Undefined"} -> "NoneType"
           [] OTHER -> v.type

PyKind(v) ==
    CASE PyType(v) \in {"int", "Bool"} -> "number"
      [] PyType(v) = "str" -> "str"
      [] PyType(v) = "NoneType" -> "none"
      [] OTHER -> PyType(v)

PayloadEq(a, b) ==
    /\ PyKind(a) = PyKind(b)
    /\ CASE PyKind(a) = "str" -> a.s = b.s
         [] PyKind(a) = "none" -> TRUE
         [] OTHER -> a.i = b.i

\* Value.with_ref: a fresh Value with the binding's content and a
\* back-reference to the binding
with_ref(S, id) ==
    [type |-> S.bindings[id].value.type, i |-> S.bindings[id].value.i,
     s |-> S.bindings[id].value.s, ref |-> id, py |-> S.bindings[id].value.py]

----------------------------------------------------------------------------
(* Scope, Variable, Class, Coroutine (scope.py, function.py)               *)

EmptyMap == [n \in {} |-> 0]

MapPut(m, key, v) == [n \in (DOMAIN m) \cup {key} |-> IF n = key THEN v ELSE m[n]]

Scope(parent) ==
    [parent |-> parent, variables |-> EmptyMap, functions |-> EmptyMap,
     classes |-> EmptyMap, return_value |-> None]

Variable(name, value, boldness, type) ==
    [name |-> name, value |-> value, boldness |-> boldness, type |-> type,
     previous |-> value, when_mutated |-> 0,
     \* `self.previous = value`: previous and value are one Value object
     \* until an assignment or a coroutine's result replaces value
     previous_is_value |-> TRUE]

\* Array.__init__: the values keyed i - 1 for their places i = 0, 1, ...
Array(values, type) ==
    [values |-> [key \in (0 - 1)..(Len(values) - 2) |-> values[key + 2]], type |-> type]

Class(name, sc) == [name |-> name, scope |-> sc, has_instance |-> FALSE]

\* a Coroutine that is not marked to skip its first boundary
Coroutine_no_skip(body) ==
    [body |-> body, result |-> None, skip_current_newline |-> FALSE, store |-> 0]

Coroutine(body) ==
    [body |-> body, result |-> None, skip_current_newline |-> TRUE, store |-> 0]

RECURSIVE get_variable(_, _, _)
get_variable(S, sc, name) ==
    IF name \in DOMAIN S.scopes[sc].variables THEN S.scopes[sc].variables[name]
    ELSE IF S.scopes[sc].parent # 0 THEN get_variable(S, S.scopes[sc].parent, name)
    ELSE 0

RECURSIVE get_function(_, _, _)
get_function(S, sc, name) ==
    IF name \in DOMAIN S.scopes[sc].functions THEN S.scopes[sc].functions[name]
    ELSE IF S.scopes[sc].parent # 0 THEN get_function(S, S.scopes[sc].parent, name)
    ELSE 0

RECURSIVE get_class(_, _, _)
get_class(S, sc, name) ==
    IF name \in DOMAIN S.scopes[sc].classes THEN S.scopes[sc].classes[name]
    ELSE IF S.scopes[sc].parent # 0 THEN get_class(S, S.scopes[sc].parent, name)
    ELSE 0

----------------------------------------------------------------------------
(* AST nodes (ast.py).  A function, `when` or class node is named by its   *)
(* place in the catalogue of the definitions the programs may contain.     *)

VarVar == 0
VarConst == 1
ConstVar == 2
ConstConst == 3
ConstConstConst == 4

IntegerExpr(n) == [k |-> "IntegerExpr", value |-> n]
StringExpr(str) == [k |-> "StringExpr", text |-> str]
IdentifierExpr(name) == [k |-> "IdentifierExpr", name |-> name]
VariableExpr(name, value, type, boldness) ==
    [k |-> "VariableExpr", name |-> name, expr |-> value, type |-> type,
     boldness |-> boldness]
BinaryOpExpr(lhs, rhs, op) == [k |-> "BinaryOpExpr", lhs |-> lhs, rhs |-> rhs, op |-> op]
UnaryOpExpr(e, op) == [k |-> "UnaryOpExpr", expr |-> e, op |-> op]
ArrayExpr(values) == [k |-> "ArrayExpr", values |-> values]
IndexExpr(value, idx) == [k |-> "IndexExpr", value |-> value, index |-> idx]
PreviousExpr(e) == [k |-> "PreviousExpr", expr |-> e]
DeleteExpr(e) == [k |-> "DeleteExpr", expr |-> e]
ReturnExpr(e) == [k |-> "ReturnExpr", expr |-> e]
CallExpr(callee, args) == [k |-> "CallExpr", callee |-> callee, args |-> args]
FunctionExpr(fn) == [k |-> "FunctionExpr", fn |-> fn]
WhenExpr(wh) == [k |-> "WhenExpr", wh |-> wh]
ClassExpr(cl) == [k |-> "ClassExpr", cl |-> cl]
NewExpr(name) == [k |-> "NewExpr", name |-> name]
NewFileExpr(fname) == [k |-> "NewFileExpr", filename |-> fname]
NewlineExpr == [k |-> "NewlineExpr"]
ExportExpr(symbol, to) == [k |-> "ExportExpr", symbol |-> symbol, to |-> to]
ImportExpr(symbol) == [k |-> "ImportExpr", symbol |-> symbol]
\* an AST node is an object: two `reverse` statements differ by their span
ReverseExpr(span) == [k |-> "ReverseExpr", span |-> span]
AwaitExpr(e) == [k |-> "AwaitExpr", expr |-> e]

\* The function definitions of the programs: name, parameters, body,
\* whether the body is one bare expression, and the async flag.
FunctionDefs ==
    << [name |-> "f", args |-> <<>>, is_single_expr |-> FALSE, is_async |-> TRUE,
        body |-> <<ReturnExpr(IntegerExpr(1))>>],
       [name |-> "g", args |-> <<>>, is_single_expr |-> FALSE, is_async |-> TRUE,
        body |-> <<BinaryOpExpr(IdentifierExpr("y"), IntegerExpr(2), "Assign"),
                   StringExpr("noop"),
                   CallExpr(IdentifierExpr("f"), <<>>),
                   ReturnExpr(IntegerExpr(2)),
                   BinaryOpExpr(IdentifierExpr("y"), IntegerExpr(5), "Assign")>>],
       [name |-> "h", args |-> <<>>, is_single_expr |-> FALSE, is_async |-> TRUE,
        body |-> <<BinaryOpExpr(IdentifierExpr("y"), IntegerExpr(5), "Assign")>>],
       [name |-> "lit", args |-> <<>>, is_single_expr |-> FALSE, is_async |-> FALSE,
        body |-> <<ReturnExpr(IntegerExpr(5)),
                   BinaryOpExpr(IdentifierExpr("y"), IntegerExpr(2), "Assign")>>],
       [name |-> "id", args |-> <<"a">>, is_single_expr |-> TRUE, is_async |-> FALSE,
        body |-> <<IdentifierExpr("a")>>],
       [name |-> "nf", args |-> <<>>, is_single_expr |-> FALSE, is_async |-> TRUE,
        body |-> <<NewFileExpr(""), ReturnExpr(IntegerExpr(2))>>],
       [name |-> "decl", args |-> <<>>, is_single_expr |-> FALSE, is_async |-> FALSE,
        body |-> <<VariableExpr("x", IntegerExpr(2), VarVar, 1),
                   ReturnExpr(IdentifierExpr("x"))>>],
       [name |-> "boom", args |-> <<>>, is_single_expr |-> FALSE, is_async |-> FALSE,
        body |-> <<NewExpr("Foo"),
                   CallExpr(IdentifierExpr("print"), <<StringExpr("after")>>)>>],
       [name |-> "aboom", args |-> <<>>, is_single_expr |-> FALSE, is_async |-> TRUE,
        body |-> <<NewExpr("Foo"),
                   CallExpr(IdentifierExpr("print"), <<StringExpr("after")>>),
                   ReturnExpr(IntegerExpr(1))>>],
       [name |-> "r", args |-> <<>>, is_single_expr |-> FALSE, is_async |-> TRUE,
        body |-> <<CallExpr(IdentifierExpr("r"), <<>>),
                   ReturnExpr(IntegerExpr(1))>>],
       [name |-> "__anon_func_0", args |-> <<>>, is_single_expr |-> FALSE,
        is_async |-> FALSE, body |-> <<ReturnExpr(IntegerExpr(1))>>] >>

\* The `when` statements of the programs: the left operand of the
\* condition and the body.
WhenDefs ==
    << [lhs |-> IdentifierExpr("x"),
        body |-> <<BinaryOpExpr(IdentifierExpr("y"), IntegerExpr(2), "Assign")>>],
       [lhs |-> IdentifierExpr("x"),
        body |-> <<VariableExpr("x", IntegerExpr(1), VarVar, 2)>>],
       [lhs |-> IdentifierExpr("y"),
        body |-> <<BinaryOpExpr(IdentifierExpr("y"), IntegerExpr(1), "Assign")>>],
       [lhs |-> IdentifierExpr("x"),
        body |-> <<CallExpr(IdentifierExpr("print"), <<IdentifierExpr("x")>>),
                   VariableExpr("t", IntegerExpr(3), VarVar, 1)>>],
       [lhs |-> IdentifierExpr("x"),
        body |-> <<CallExpr(IdentifierExpr("print"), <<IdentifierExpr("x")>>),
                   NewFileExpr("")>>],
       [lhs |-> IdentifierExpr("x"),
        body |-> <<NewExpr("Foo"),
                   CallExpr(IdentifierExpr("print"), <<StringExpr("after")>>)>>] >>

\* The class definitions of the programs: name and member statements.
ClassDefs ==
    << [name |-> "Foo", body |-> <<VariableExpr("a", IntegerExpr(1), VarVar, 1)>>],
       [name |-> "Bar", body |-> <<>>] >>

----------------------------------------------------------------------------
(* The evaluator (interpreter.py, function.py, errors.py)                  *)

R(S, v) == [s |-> S, v |-> v]

\* error printing the diagnostic and returning to its caller
error_returns(S, msg) == R([S EXCEPT !.message = msg], undefined)

\* errors.error: print the diagnostic and sys.exit(1)
error(S, msg) == R([S EXCEPT !.status = "error", !.message = msg], undefined)

\* an uncaught Python exception: the process dies with a traceback
raise(S, exc) == R([S EXCEPT !.status = "crash", !.message = exc], undefined)

is_deleted_value(S, value) ==
    \E n \in 1..Len(S.deleted_values) :
        /\ PayloadEq(S.deleted_values[n], value)
        /\ S.deleted_values[n].type = value.type

validate(S, value) ==
    IF is_deleted_value(S, value) THEN error(S, "has been deleted") ELSE R(S, value)

\* set.add(value) hashes the value; Value defines __eq__ and no __hash__
\* (value.py:45-49), so Python sets Value.__hash__ to None
ValueIsHashable == FALSE

\* Coroutine.set_result
set_result(S, c, result) ==
    LET S1 == IF S.coroobjs[c].store # 0
              THEN [S EXCEPT !.bindings[S.coroobjs[c].store].value = result,
                             !.bindings[S.coroobjs[c].store].previous_is_value = FALSE]
              ELSE S
    IN  [S1 EXCEPT !.coroobjs[c].result = result]

\* list.remove(x): the list without its first x
RECURSIVE ListRemove(_, _)
ListRemove(q, x) ==
    IF q = <<>> THEN <<>>
    ELSE IF Head(q) = x THEN Tail(q)
    ELSE <<Head(q)>> \o ListRemove(Tail(q), x)

InList(q, x) == \E n \in 1..Len(q) : q[n] = x

\* str() of a payload, as the tier-1 comparison coerces to a string.  The
\* text of a Bool member is its number from Python 3.11 on; earlier versions
\* give `Bool.true`, a text that no program here holds.
PyStr(v) ==
    CASE PyKind(v) = "str" -> v.s
      [] PyKind(v) = "number" -> ToString(v.i)
      [] PyKind(v) = "none" -> "None"
      [] OTHER -> "<object>"

\* the texts int() accepts: the decimal forms of the integers
Numerals == (0 - 99)..99

IsNumeral(str) == \E n \in Numerals : ToString(n) = str

\* v with the payload replaced: the ValueType and the back-reference stay
WithPayload(v, py, i, str) ==
    [v EXCEPT !.i = i, !.s = str,
              !.py = IF py = PyType([v EXCEPT !.py = ""]) THEN "" ELSE py]

\* type(lhs.value)(rhs.value) of Interpreter.cmp: the right value with its
\* payload converted to the Python type of the left payload, or the
\* exception the conversion raises.  str() and int() convert; Bool() looks
\* a member up by its number; NoneType() and Function() take no such
\* argument; ClassInstance(), Coroutine() and Array() build a new object.
convert(lhs, rhs) ==
    CASE PyType(lhs) = "str" ->
             [exc |-> "", v |-> WithPayload(rhs, "str", 0, PyStr(rhs))]
      [] PyType(lhs) = "int" /\ PyKind(rhs) = "number" ->
             [exc |-> "", v |-> WithPayload(rhs, "int", rhs.i, "")]
      [] PyType(lhs) = "int" /\ PyKind(rhs) = "str" ->
             IF IsNumeral(rhs.s)
             THEN [exc |-> "",
                   v |-> WithPayload(rhs, "int",
                                     CHOOSE n \in Numerals : ToString(n) = rhs.s, "")]
             ELSE [exc |-> "ValueError", v |-> rhs]
      [] PyType(lhs) = "Bool" /\ PyKind(rhs) = "number" /\ rhs.i \in {0, 1, 2} ->
             [exc |-> "", v |-> WithPayload(rhs, "Bool", rhs.i, "")]
      [] PyType(lhs) = "Bool" -> [exc |-> "ValueError", v |-> rhs]
      [] PyType(lhs) \in {"Object", "Coroutine"} ->
             [exc |-> "", v |-> WithPayload(rhs, "object", 0, "")]
      [] PyType(lhs) = "Array" /\ PyKind(rhs) = "str" ->
             [exc |-> "", v |-> WithPayload(rhs, "object", 0, "")]
      [] OTHER -> [exc |-> "TypeError", v |-> rhs]

\* Interpreter.cmp for `=` and `==`: the right payload is converted to the
\* Python type of the left payload when the ValueTypes differ.  The result
\* is "true", "false", or the exception the conversion raises.
cmp_loose(lhs, rhs) ==
    IF lhs.type = rhs.type
    THEN (IF PayloadEq(lhs, rhs) THEN "true" ELSE "false")
    ELSE IF convert(lhs, rhs).exc # "" THEN convert(lhs, rhs).exc
    ELSE IF convert(lhs, rhs).v.py = "object"
    THEN (IF PyType(lhs) = "Array" /\ rhs.s = "" /\ lhs.i = Array(<<>>, "Any")
          THEN "true" ELSE "false")
    ELSE IF PayloadEq(lhs, convert(lhs, rhs).v) THEN "true" ELSE "false"

\* the right value as Interpreter.cmp leaves it: `rhs.value = ...` replaces
\* the payload of the Value object the right operand evaluated to
cmp_leaves(lhs, op, rhs) ==
    IF op \in {"Assign", "Eq"} /\ lhs.type # rhs.type /\ convert(lhs, rhs).exc = ""
    THEN convert(lhs, rhs).v
    ELSE rhs

RECURSIVE visit(_, _)
RECURSIVE visit_all(_, _)
RECURSIVE visit_block(_, _)
RECURSIVE visit_body(_, _, _)
RECURSIVE call(_, _, _, _)
RECURSIVE execute_coroutine(_, _)
RECURSIVE execute_snapshot(_, _)
RECURSIVE drain(_, _)

\* Interpreter.visit_IntegerExpr
visit_IntegerExpr(S, expr) ==
    IF ToString(expr.value) \in DOMAIN S.scopes[S.scope].variables
    THEN R(S, with_ref(S, S.scopes[S.scope].variables[ToString(expr.value)]))
    ELSE R(S, Value(expr.value, "Int"))

\* Interpreter.visit_IdentifierExpr
visit_IdentifierExpr(S, expr) ==
    IF get_variable(S, S.scope, expr.name) # 0
    THEN R(S, with_ref(S, get_variable(S, S.scope, expr.name)))
    ELSE IF get_function(S, S.scope, expr.name) # 0
    THEN R(S, Value(get_function(S, S.scope, expr.name), "Function"))
    ELSE IF expr.name = "print" THEN R(S, Value(0, "Function"))
    ELSE IF expr.name \in SPECIAL_NAMES THEN R(S, S.special_values[expr.name])
    ELSE R(S, StringValue(expr.name))

\* visit_VariableExpr ignoring a declaration of equal boldness as well
visit_VariableExpr_ge(S, expr) ==
    LET variable == get_variable(S, S.scope, expr.name) IN
    IF variable # 0 /\ S.bindings[variable].boldness >= expr.boldness
    THEN R(S, undefined)
    ELSE
      LET r == visit(S, expr.expr) IN
      IF r.s.status # "running" THEN r
      ELSE
        LET coroutine == IF r.v.type = "Coroutine" THEN r.v.i ELSE 0
            value == IF coroutine = 0 THEN r.v
                     ELSE IF r.s.coroobjs[coroutine].result # None
                          THEN r.s.coroobjs[coroutine].result
                          ELSE undefined
            id == Len(r.s.bindings) + 1
            S1 == [r.s EXCEPT !.bindings =
                        Append(@, Variable(expr.name, value, expr.boldness, expr.type))]
            S2 == IF coroutine # 0 THEN [S1 EXCEPT !.coroobjs[coroutine].store = id]
                  ELSE S1
        IN  R([S2 EXCEPT !.scopes[S2.scope].variables = MapPut(@, expr.name, id)],
              undefined)

\* Interpreter.visit_VariableExpr
visit_VariableExpr(S, expr) ==
    LET variable == get_variable(S, S.scope, expr.name) IN
    IF variable # 0 /\ S.bindings[variable].boldness > expr.boldness
    THEN R(S, undefined)
    ELSE
      LET r == visit(S, expr.expr) IN
      IF r.s.status # "running" THEN r
      ELSE
        LET coroutine == IF r.v.type = "Coroutine" THEN r.v.i ELSE 0
            value == IF coroutine = 0 THEN r.v
                     ELSE IF r.s.coroobjs[coroutine].result # None
                          THEN r.s.coroobjs[coroutine].result
                          ELSE undefined
            id == Len(r.s.bindings) + 1
            S1 == [r.s EXCEPT !.bindings =
                        Append(@, Variable(expr.name, value, expr.boldness, expr.type))]
            S2 == IF coroutine # 0 THEN [S1 EXCEPT !.coroobjs[coroutine].store = id]
                  ELSE S1
        IN  R([S2 EXCEPT !.scopes[S2.scope].variables = MapPut(@, expr.name, id)],
              undefined)

\* Interpreter.visit_FunctionExpr
visit_FunctionExpr(S, expr) ==
    R([S EXCEPT !.scopes[S.scope].functions = MapPut(@, FunctionDefs[expr.fn].name, expr.fn)],
      Value(expr.fn, "Function"))

\* Interpreter.visit_ReturnExpr
visit_ReturnExpr(S, expr) ==
    LET r == visit(S, expr.expr) IN
    IF r.s.status # "running" THEN r
    ELSE IF r.s.scope = 0 THEN raise(r.s, "AttributeError")
    ELSE R([r.s EXCEPT !.scopes[r.s.scope].return_value = r.v], undefined)

\* Interpreter.visit_CallExpr
visit_CallExpr(S, expr) ==
    LET c == visit(S, expr.callee) IN
    IF c.s.status # "running" THEN c
    ELSE IF c.v.type # "Function" THEN error(c.s, "Cannot call non-function value")
    ELSE LET a == visit_all(c.s, expr.args) IN
         IF a.s.status # "running" THEN R(a.s, undefined)
         ELSE call(a.s, c.v.i, a.v, FALSE)

\* Interpreter.visit_DeleteExpr
visit_DeleteExpr(S, expr) ==
    LET r == visit(S, expr.expr) IN
    IF r.s.status # "running" THEN r
    ELSE IF ~ValueIsHashable THEN raise(r.s, "TypeError: unhashable type: 'Value'")
    ELSE R([r.s EXCEPT !.deleted_values =
                IF InList(@, r.v) THEN @ ELSE Append(@, r.v)], undefined)

\* The trigger of an assignment (interpreter.py:275-280): the body runs in
\* a pushed child scope, then the current scope's parent (None for a root
\* scope) becomes current.
run_when_mutated(S, wh) ==
    IF S.depth >= MaxDepth THEN raise(S, "RecursionError")
    ELSE
      LET S1 == [S EXCEPT !.scopes = Append(@, Scope(S.scope)),
                          !.scope = Len(S.scopes) + 1,
                          !.depth = @ + 1]
          S2 == visit_block(S1, WhenDefs[wh].body)
      IN  IF S2.status # "running" THEN R(S2, undefined)
          ELSE IF S2.scope = 0 THEN raise(S2, "AttributeError")
          ELSE R([S2 EXCEPT !.scope = S2.scopes[S2.scope].parent, !.depth = @ - 1],
                 undefined)

\* assign with the previous value not captured
assign_keeps_previous(S, ref, rhs) ==
    IF S.bindings[ref].type \in {ConstConst, ConstConstConst, ConstVar}
    THEN error(S, "Cannot assign to const variable")
    ELSE
      LET S1 == [S EXCEPT !.bindings[ref].value = rhs,
                          !.bindings[ref].previous_is_value = FALSE]
      IN  IF S1.bindings[ref].when_mutated # 0
          THEN run_when_mutated(S1, S1.bindings[ref].when_mutated)
          ELSE R(S1, undefined)

\* assign with ConstVar missing from the tags that forbid assignment
assign_to_ConstVar(S, ref, rhs) ==
    IF S.bindings[ref].type \in {ConstConst, ConstConstConst}
    THEN error(S, "Cannot assign to const variable")
    ELSE
      LET S1 == [S EXCEPT !.bindings[ref].previous = S.bindings[ref].value,
                          !.bindings[ref].value = rhs,
                          !.bindings[ref].previous_is_value = FALSE]
      IN  IF S1.bindings[ref].when_mutated # 0
          THEN run_when_mutated(S1, S1.bindings[ref].when_mutated)
          ELSE R(S1, undefined)

\* The assignment branch of visit_BinaryOpExpr (interpreter.py:268-282)
assign(S, ref, rhs) ==
    IF S.bindings[ref].type \in {ConstConst, ConstConstConst, ConstVar}
    THEN error(S, "Cannot assign to const variable")
    ELSE
      LET S1 == [S EXCEPT !.bindings[ref].previous = S.bindings[ref].value,
                          !.bindings[ref].value = rhs,
                          !.bindings[ref].previous_is_value = FALSE]
      IN  IF S1.bindings[ref].when_mutated # 0
          THEN run_when_mutated(S1, S1.bindings[ref].when_mutated)
          ELSE R(S1, undefined)

\* Bool(<a Python bool>) as the text cmp_loose answers with
PyBool(b) == IF b THEN "true" ELSE "false"

\* cmp with `====` comparing the contents as `===` does
cmp_by_content(lhs, op, rhs) ==
    IF op \in {"Assign", "Eq"} THEN cmp_loose(lhs, rhs)
    ELSE IF lhs.type # rhs.type THEN "false"
    ELSE PyBool(PayloadEq(lhs, rhs))

\* Interpreter.cmp: tier 1 for `=` and `==`, tier 2 for `===`, tier 3 for `====`
cmp(lhs, op, rhs) ==
    IF op \in {"Assign", "Eq"} THEN cmp_loose(lhs, rhs)
    ELSE IF op = "TripleEq"
    THEN (IF lhs.type # rhs.type THEN "false" ELSE PyBool(PayloadEq(lhs, rhs)))
    ELSE IF lhs.ref # 0
    THEN (IF rhs.ref = 0 THEN "false" ELSE PyBool(lhs.ref = rhs.ref))
    ELSE IF lhs.type # rhs.type THEN "false"
    ELSE PyBool(PayloadEq(lhs, rhs))

INTEGER_TYPES == {"Int", "Digit", "Float"}

EQ_TYPES == {"Assign", "Eq", "TripleEq", "QuadEq"}

NEQ_TYPES_TO_EQ ==
    [op \in {"NAssign", "NEq", "NTripleEq", "NQuadEq"} |->
        CASE op = "NAssign" -> "Assign"
          [] op = "NEq" -> "Eq"
          [] op = "NTripleEq" -> "TripleEq"
          [] OTHER -> "QuadEq"]

\* Python's floor division of integers
FloorDiv(a, b) ==
    IF b > 0 THEN a \div b ELSE (0 - a) \div (0 - b)

\* str * int: the text repeated
RECURSIVE Repeat(_, _)
Repeat(str, n) == IF n <= 0 THEN "" ELSE str \o Repeat(str, n - 1)

\* Python's +, -, * and // on two payloads that are not both numbers, as a
\* tier-1 comparison can leave them under an integer ValueType: texts
\* concatenate and repeat, every other pair raises TypeError
arith_payloads(S, op, lhs, rhs) ==
    IF op = "Plus" /\ PyKind(lhs) = "str" /\ PyKind(rhs) = "str"
    THEN R(S, WithPayload(Value(0, lhs.type), "str", 0, lhs.s \o rhs.s))
    ELSE IF op = "Mul" /\ PyKind(lhs) = "str" /\ PyKind(rhs) = "number"
    THEN R(S, WithPayload(Value(0, lhs.type), "str", 0, Repeat(lhs.s, rhs.i)))
    ELSE IF op = "Mul" /\ PyKind(lhs) = "number" /\ PyKind(rhs) = "str"
    THEN R(S, WithPayload(Value(0, lhs.type), "str", 0, Repeat(rhs.s, lhs.i)))
    ELSE raise(S, "TypeError")

\* arith without the test for a zero divisor: Python's `//` raises
arith_div_raises(S, op, lhs, rhs) ==
    IF lhs.type \notin INTEGER_TYPES \/ rhs.type \notin INTEGER_TYPES
    THEN error(S, CASE op = "Plus" -> "Cannot add non-integer value"
                    [] op = "Minus" -> "Cannot substract non-integer value"
                    [] op = "Mul" -> "Cannot multiply non-integer value"
                    [] OTHER -> "Cannot divide non-integer value")
    ELSE IF PyKind(lhs) # "number" \/ PyKind(rhs) # "number"
    THEN arith_payloads(S, op, lhs, rhs)
    ELSE CASE op = "Plus" -> R(S, Value(lhs.i + rhs.i, lhs.type))
           [] op = "Minus" -> R(S, Value(lhs.i - rhs.i, lhs.type))
           [] op = "Mul" -> R(S, Value(lhs.i * rhs.i, lhs.type))
           [] OTHER -> IF rhs.i = 0 THEN raise(S, "ZeroDivisionError")
                       ELSE R(S, Value(FloorDiv(lhs.i, rhs.i), lhs.type))

\* The arithmetic branches of visit_BinaryOpExpr (interpreter.py:283-307)
arith(S, op, lhs, rhs) ==
    IF lhs.type \notin INTEGER_TYPES \/ rhs.type \notin INTEGER_TYPES
    THEN error(S, CASE op = "Plus" -> "Cannot add non-integer value"
                    [] op = "Minus" -> "Cannot substract non-integer value"
                    [] op = "Mul" -> "Cannot multiply non-integer value"
                    [] OTHER -> "Cannot divide non-integer value")
    ELSE IF PyKind(lhs) # "number" \/ PyKind(rhs) # "number"
    THEN arith_payloads(S, op, lhs, rhs)
    ELSE CASE op = "Plus" -> R(S, Value(lhs.i + rhs.i, lhs.type))
           [] op = "Minus" -> R(S, Value(lhs.i - rhs.i, lhs.type))
           [] op = "Mul" -> R(S, Value(lhs.i * rhs.i, lhs.type))
           [] OTHER -> IF rhs.i = 0 THEN R(S, undefined)
                       ELSE R(S, Value(FloorDiv(lhs.i, rhs.i), lhs.type))

\* Array.from_int: the decimal digits of a number that is not negative
RECURSIVE DigitsOf(_)
DigitsOf(n) == IF n < 10 THEN <<n>> ELSE DigitsOf(n \div 10) \o <<n % 10>>

from_int(integer) == Array([j \in 1..Len(DigitsOf(integer)) |-> Value(DigitsOf(integer)[j], "Int")], "Int")

\* the characters of the texts that the programs index
CharsOf(str) ==
    IF Len(str) = 0 THEN <<>>
    ELSE IF Len(str) = 1 THEN <<str>>
    ELSE CASE str = "ab" -> <<"a", "b">>
           [] str = "10" -> <<"1", "0">>
           [] str = "-1" -> <<"-", "1">>

\* Array.from_str
from_str(string) ==
    Array([j \in 1..Len(CharsOf(string)) |-> StringValue(CharsOf(string)[j])], "String")

\* Array.VALUE_TYPE_MAP
VALUE_TYPE_MAP(type) == IF type = "String" THEN "Char" ELSE "Digit"

\* Array.at with Array.process: the element under the key, which for an
\* Array of characters or digits gets the ValueType of its kind; Undefined
\* when the Array holds nothing under the key
at(S, id, key) ==
    IF key \notin DOMAIN S.arrayobjs[id].values THEN R(S, undefined)
    ELSE IF S.arrayobjs[id].type = "Any" THEN R(S, S.arrayobjs[id].values[key])
    ELSE R([S EXCEPT !.arrayobjs[id].values[key].type = VALUE_TYPE_MAP(S.arrayobjs[id].type)],
           [S.arrayobjs[id].values[key] EXCEPT !.type = VALUE_TYPE_MAP(S.arrayobjs[id].type)])

\* The place of the Value object an expression evaluates to, when the
\* object outlives the evaluation: visit_IdentifierExpr returns the object
\* that SPECIAL_VALUES holds (interpreter.py:225-226), visit_PreviousExpr the
\* object the Variable holds as previous (interpreter.py:336) and
\* visit_IndexExpr the element the Array holds (Array.at, value.py:127-132).
\* A literal, an operator and Value.with_ref build a new Value.  A call
\* returns the object its return statement evaluated; the programs here
\* return new Values only, and store no object of the three kinds in a
\* second place.
object_of(S, expr) ==
    CASE expr.k = "IdentifierExpr" ->
             IF /\ get_variable(S, S.scope, expr.name) = 0
                /\ get_function(S, S.scope, expr.name) = 0
                /\ expr.name \in SPECIAL_NAMES
             THEN [kind |-> "special", name |-> expr.name]
             ELSE [kind |-> "new"]
      [] expr.k = "PreviousExpr" ->
             LET held(r) == IF r.s.status = "running" /\ r.v.ref # 0
                            THEN [kind |-> "previous", ref |-> r.v.ref]
                            ELSE [kind |-> "new"]
             IN  held(visit(S, expr.expr))
      [] expr.k = "IndexExpr" ->
             LET element(v) ==
                     LET keyed(ix) ==
                             IF /\ ix.s.status = "running"
                                /\ PyType(v.v) = "Array"
                                /\ PyKind(ix.v) = "number"
                                /\ ix.v.i \in DOMAIN ix.s.arrayobjs[v.v.i].values
                             THEN [kind |-> "element", array |-> v.v.i, key |-> ix.v.i]
                             ELSE [kind |-> "new"]
                     IN  IF v.s.status # "running" THEN [kind |-> "new"]
                         ELSE keyed(visit(v.s, expr.index))
             IN  element(visit(S, expr.value))
      [] OTHER -> [kind |-> "new"]

\* An assignment to a field of the Value object at a place: every holder of
\* the object sees it
poke(S, place, v) ==
    CASE place.kind = "special" -> [S EXCEPT !.special_values[place.name] = v]
      [] place.kind = "previous" ->
             [S EXCEPT !.bindings[place.ref].previous = v,
                       !.bindings[place.ref].value =
                           IF S.bindings[place.ref].previous_is_value THEN v ELSE @]
      [] place.kind = "element" ->
             [S EXCEPT !.arrayobjs[place.array].values[place.key] = v]
      [] OTHER -> S

\* Interpreter.visit_ArrayExpr
visit_ArrayExpr(S, expr) ==
    LET built(a) ==
            IF a.s.status # "running" THEN R(a.s, undefined)
            ELSE R([a.s EXCEPT !.arrayobjs = Append(@, Array(a.v, "Any"))],
                   Value(Len(a.s.arrayobjs) + 1, "Array"))
    IN  built(visit_all(S, expr.values))

\* The end of visit_IndexExpr (interpreter.py:171-178): the bounds check on
\* len(arr.value), then Array.at
index_checked(S, id, idx) ==
    IF PyKind(idx) # "number" THEN raise(S, "TypeError")
    ELSE IF \/ idx.i < 0 - Cardinality(DOMAIN S.arrayobjs[id].values)
            \/ idx.i >= Cardinality(DOMAIN S.arrayobjs[id].values)
    THEN error(S, "Array index out of bounds")
    ELSE at(S, id, idx.i)

\* visit_IndexExpr from `arr = value` on (interpreter.py:165-178): a number
\* or text payload is replaced, in the Value object itself, by the Array of
\* its digits or characters
index_value(S, place, arr, idx) ==
    IF PyKind(arr) = "number"
    THEN (IF arr.i < 0 THEN raise(S, "ValueError")
          ELSE index_checked(
                   poke([S EXCEPT !.arrayobjs = Append(@, from_int(arr.i))], place,
                        WithPayload(arr, "Array", Len(S.arrayobjs) + 1, "")),
                   Len(S.arrayobjs) + 1, idx))
    ELSE IF PyKind(arr) = "str"
    THEN index_checked(
             poke([S EXCEPT !.arrayobjs = Append(@, from_str(arr.s))], place,
                  WithPayload(arr, "Array", Len(S.arrayobjs) + 1, "")),
             Len(S.arrayobjs) + 1, idx)
    ELSE IF PyType(arr) = "Array" THEN index_checked(S, arr.i, idx)
    ELSE raise(S, "TypeError")

\* Interpreter.visit_IndexExpr; no value of the model is a Dictionary
visit_IndexExpr(S, expr) ==
    LET indexed(v) ==
            LET with_index(ix) ==
                    IF ix.s.status # "running" THEN ix
                    ELSE IF v.v.type \notin {"Array", "String", "Int", "Dict"}
                    THEN error(ix.s, "Cannot index value")
                    ELSE IF ix.v.type \notin {"Int", "Digit", "Float"}
                    THEN error(ix.s, "Cannot index with non-integer value")
                    ELSE index_value(ix.s, object_of(S, expr.value), v.v, ix.v)
            IN  IF v.s.status # "running" THEN v ELSE with_index(visit(v.s, expr.index))
    IN  indexed(visit(S, expr.value))

\* The index assignment of visit_BinaryOpExpr (interpreter.py:246-264):
\* Array.insert puts the value under the key, whatever the key
assign_index(S, expr) ==
    LET with_index(ix) ==
            LET with_parent(parent) ==
                    LET inserted(rhs) ==
                            IF rhs.s.status # "running" THEN rhs
                            ELSE IF PyType(parent.v) # "Array" \/ PyKind(ix.v) # "number"
                            THEN raise(rhs.s, "AttributeError")
                            ELSE R([rhs.s EXCEPT !.arrayobjs[parent.v.i].values =
                                        MapPut(@, ix.v.i, rhs.v)], undefined)
                    IN  IF parent.s.status # "running" THEN parent
                        ELSE IF parent.v.type \notin {"Array", "Dict"}
                        THEN error(parent.s, "Cannot index value")
                        ELSE IF ix.v.type \notin {"Int", "Digit", "Float"}
                        THEN error(parent.s, "Array index must be an integer, digit or float")
                        ELSE inserted(visit(parent.s, expr.rhs))
            IN  IF ix.s.status # "running" THEN ix
                ELSE with_parent(visit(ix.s, expr.lhs.value))
    IN  with_index(visit(S, expr.lhs.index))

\* The payload of a value as Python's == sees it: an Array by the values
\* it holds and its type (Array.__eq__, value.py:94-98), a held Value by
\* its payload and ValueType (Value.__eq__, value.py:45-49)
RECURSIVE payload_of(_, _)
payload_of(S, v) ==
    IF PyType(v) # "Array" THEN v
    ELSE [v EXCEPT !.i =
             [values |-> [key \in DOMAIN S.arrayobjs[v.i].values |->
                             LET held(e) == [type |-> e.type, kind |-> PyKind(e),
                                             i |-> e.i, s |-> e.s]
                             IN  held(payload_of(S, S.arrayobjs[v.i].values[key]))],
              type |-> S.arrayobjs[v.i].type]]

\* Interpreter.visit_BinaryOpExpr
visit_BinaryOpExpr(S, expr) ==
    IF expr.lhs.k = "IndexExpr" /\ expr.op = "Assign" THEN assign_index(S, expr)
    ELSE
    LET l == visit(S, expr.lhs) IN
    IF l.s.status # "running" THEN l
    ELSE
      LET r == visit(l.s, expr.rhs) IN
      IF r.s.status # "running" THEN r
      ELSE IF l.v.ref # 0 /\ expr.op = "Assign" THEN assign(r.s, l.v.ref, r.v)
      ELSE IF expr.op \in {"Plus", "Minus", "Mul", "Div"}
      THEN arith(r.s, expr.op, l.v, r.v)
      ELSE IF expr.op \in EQ_TYPES
      THEN
        LET res == cmp(payload_of(r.s, l.v), expr.op, payload_of(r.s, r.v))
            S1 == poke(r.s, object_of(l.s, expr.rhs),
                       cmp_leaves(payload_of(r.s, l.v), expr.op, r.v))
        IN
        IF res = "true" THEN R(S1, Value(BoolTrue, "Bool"))
        ELSE IF res = "false" THEN R(S1, Value(BoolFalse, "Bool"))
        ELSE raise(r.s, res)
      ELSE IF expr.op \in DOMAIN NEQ_TYPES_TO_EQ
      THEN
        LET res == cmp(payload_of(r.s, l.v), NEQ_TYPES_TO_EQ[expr.op], payload_of(r.s, r.v))
            S1 == poke(r.s, object_of(l.s, expr.rhs),
                       cmp_leaves(payload_of(r.s, l.v), NEQ_TYPES_TO_EQ[expr.op], r.v))
        IN
        IF res = "true" THEN R(S1, Value(BoolFalse, "Bool"))
        ELSE IF res = "false" THEN R(S1, Value(BoolTrue, "Bool"))
        ELSE raise(r.s, res)
      ELSE raise(r.s, "RuntimeError")

\* Interpreter.visit_UnaryOpExpr
visit_UnaryOpExpr(S, expr) ==
    LET negated(r) ==
            IF r.s.status # "running" THEN r
            ELSE IF r.v.type \notin {"Int", "Digit", "Float", "Bool"}
            THEN error(r.s, "Cannot use unary operator on non-integer value")
            ELSE IF expr.op = "SemiColon"
            THEN R(r.s, Value(IF (PyKind(r.v) = "number" /\ r.v.i = 0)
                                 \/ (PyKind(r.v) = "str" /\ r.v.s = "")
                              THEN BoolTrue ELSE BoolFalse, "Bool"))
            ELSE IF expr.op = "Minus"
            THEN (IF PyKind(r.v) = "number" THEN R(r.s, Value(0 - r.v.i, "Int"))
                  ELSE raise(r.s, "TypeError"))
            ELSE raise(r.s, "RuntimeError")
    IN  negated(visit(S, expr.expr))

\* Interpreter.visit_PreviousExpr
visit_PreviousExpr(S, expr) ==
    LET r == visit(S, expr.expr) IN
    IF r.s.status # "running" THEN r
    ELSE IF r.v.ref = 0 THEN R(r.s, undefined)
    ELSE R(r.s, r.s.bindings[r.v.ref].previous)

\* Interpreter.finalize
finalize(S) == drain(S, 0)

\* visit_NewFileExpr without the call of finalize
visit_NewFileExpr_no_finalize(S, expr) ==
    LET S2 == [S EXCEPT !.scopes = Append(@, Scope(0)), !.scope = Len(S.scopes) + 1]
    IN  IF expr.filename # ""
        THEN R([S2 EXCEPT !.filename = expr.filename,
                          !.files = MapPut(@, expr.filename, S2.scope)], undefined)
        ELSE R(S2, undefined)

\* Interpreter.visit_NewFileExpr
visit_NewFileExpr(S, expr) ==
    LET S1 == finalize(S) IN
    IF S1.status # "running" THEN R(S1, undefined)
    ELSE
      LET S2 == [S1 EXCEPT !.scopes = Append(@, Scope(0)), !.scope = Len(S1.scopes) + 1]
      IN  IF expr.filename # ""
          THEN R([S2 EXCEPT !.filename = expr.filename,
                            !.files = MapPut(@, expr.filename, S2.scope)], undefined)
          ELSE R(S2, undefined)

\* Interpreter.export_symbol; a symbol is the kind of the object and the
\* object itself
export_symbol(S, symbol, name, to) ==
    [S EXCEPT !.exports =
        MapPut(@, to, MapPut(IF to \in DOMAIN @ THEN @[to] ELSE EmptyMap, name, symbol))]

\* Interpreter.visit_ExportExpr
visit_ExportExpr(S, expr) ==
    IF get_variable(S, S.scope, expr.symbol) # 0
    THEN R(export_symbol(S, [kind |-> "Variable", id |-> get_variable(S, S.scope, expr.symbol)],
                         expr.symbol, expr.to), undefined)
    ELSE IF get_function(S, S.scope, expr.symbol) # 0
    THEN R(export_symbol(S, [kind |-> "Function", id |-> get_function(S, S.scope, expr.symbol)],
                         expr.symbol, expr.to), undefined)
    ELSE IF get_class(S, S.scope, expr.symbol) # 0
    THEN R(export_symbol(S, [kind |-> "Class", id |-> get_class(S, S.scope, expr.symbol)],
                         expr.symbol, expr.to), undefined)
    ELSE error(S, "Cannot export non-existent symbol")

\* visit_ImportExpr installing a copy of an exported Variable
visit_ImportExpr_copy(S, expr) ==
    LET table == IF S.filename \in DOMAIN S.exports THEN S.exports[S.filename] ELSE EmptyMap
    IN  IF expr.symbol \notin DOMAIN table
        THEN error(S, "Cannot import non-existent symbol")
        ELSE IF S.scope = 0 THEN raise(S, "AttributeError")
        ELSE
          LET export == table[expr.symbol] IN
          CASE export.kind = "Variable" ->
                 R([S EXCEPT !.bindings = Append(@, S.bindings[export.id]),
                             !.scopes[S.scope].variables =
                                 MapPut(@, S.bindings[export.id].name, Len(S.bindings) + 1)],
                   undefined)
            [] export.kind = "Function" ->
                 R([S EXCEPT !.scopes[S.scope].functions =
                                 MapPut(@, FunctionDefs[export.id].name, export.id)],
                   undefined)
            [] OTHER ->
                 R([S EXCEPT !.scopes[S.scope].classes =
                                 MapPut(@, S.classobjs[export.id].name, export.id)],
                   undefined)

\* Interpreter.visit_ImportExpr
visit_ImportExpr(S, expr) ==
    LET table == IF S.filename \in DOMAIN S.exports THEN S.exports[S.filename] ELSE EmptyMap
    IN  IF expr.symbol \notin DOMAIN table
        THEN error(S, "Cannot import non-existent symbol")
        ELSE IF S.scope = 0 THEN raise(S, "AttributeError")
        ELSE
          LET export == table[expr.symbol] IN
          CASE export.kind = "Variable" ->
                 R([S EXCEPT !.scopes[S.scope].variables =
                                 MapPut(@, S.bindings[export.id].name, export.id)],
                   undefined)
            [] export.kind = "Function" ->
                 R([S EXCEPT !.scopes[S.scope].functions =
                                 MapPut(@, FunctionDefs[export.id].name, export.id)],
                   undefined)
            [] OTHER ->
                 R([S EXCEPT !.scopes[S.scope].classes =
                                 MapPut(@, S.classobjs[export.id].name, export.id)],
                   undefined)

\* visit_AwaitExpr calling the function as a call without await does
visit_AwaitExpr_enqueue(S, expr) ==
    IF expr.expr.k # "CallExpr" THEN error(S, "Can only await function calls")
    ELSE
      LET c == visit(S, expr.expr.callee) IN
      IF c.s.status # "running" THEN c
      ELSE IF c.v.type # "Function" THEN error(c.s, "Can only await function calls")
      ELSE IF c.v.i = 0 \/ ~FunctionDefs[c.v.i].is_async
      THEN error(c.s, "Can only await async functions")
      ELSE LET a == visit_all(c.s, expr.expr.args) IN
           IF a.s.status # "running" THEN R(a.s, undefined)
           ELSE call(a.s, c.v.i, a.v, FALSE)

\* Interpreter.visit_AwaitExpr
visit_AwaitExpr(S, expr) ==
    IF expr.expr.k # "CallExpr" THEN error(S, "Can only await function calls")
    ELSE
      LET c == visit(S, expr.expr.callee) IN
      IF c.s.status # "running" THEN c
      ELSE IF c.v.type # "Function" THEN error(c.s, "Can only await function calls")
      ELSE IF c.v.i = 0 \/ ~FunctionDefs[c.v.i].is_async
      THEN error(c.s, "Can only await async functions")
      ELSE LET a == visit_all(c.s, expr.expr.args) IN
           IF a.s.status # "running" THEN R(a.s, undefined)
           ELSE call(a.s, c.v.i, a.v, TRUE)

\* list.reverse()
ListReverse(q) == [j \in 1..Len(q) |-> q[Len(q) + 1 - j]]

\* visit_ReverseExpr replaying the program in source order
visit_ReverseExpr_forward(S, expr) ==
    IF ~InList(S.ast, expr) THEN raise(S, "ValueError")
    ELSE IF S.depth >= MaxDepth THEN raise(S, "RecursionError")
    ELSE
      LET replay == ListRemove(S.ast, expr)
          S1 == [S EXCEPT
                   !.coroobjs = [c \in 1..Len(S.coroobjs) |->
                                    IF InList(S.coroutines, c)
                                    THEN [S.coroobjs[c] EXCEPT !.body = ListReverse(@)]
                                    ELSE S.coroobjs[c]],
                   !.scopes = Append(@, Scope(0)),
                   !.scope = Len(S.scopes) + 1,
                   !.depth = @ + 1]
          S2 == visit_block(S1, replay)
      IN  IF S2.status # "running" THEN R(S2, undefined)
          ELSE R([S2 EXCEPT !.depth = @ - 1], undefined)

\* Interpreter.visit_ReverseExpr: the program without this statement is
\* replayed backwards from a new root scope; each nested replay deepens the
\* Python call stack
visit_ReverseExpr(S, expr) ==
    IF ~InList(S.ast, expr) THEN raise(S, "ValueError")
    ELSE IF S.depth >= MaxDepth THEN raise(S, "RecursionError")
    ELSE
      LET replay == ListReverse(ListRemove(S.ast, expr))
          S1 == [S EXCEPT
                   !.coroobjs = [c \in 1..Len(S.coroobjs) |->
                                    IF InList(S.coroutines, c)
                                    THEN [S.coroobjs[c] EXCEPT !.body = ListReverse(@)]
                                    ELSE S.coroobjs[c]],
                   !.scopes = Append(@, Scope(0)),
                   !.scope = Len(S.scopes) + 1,
                   !.depth = @ + 1]
          S2 == visit_block(S1, replay)
      IN  IF S2.status # "running" THEN R(S2, undefined)
          ELSE R([S2 EXCEPT !.depth = @ - 1], undefined)

\* Interpreter.visit_WhenExpr
visit_WhenExpr(S, expr) ==
    LET r == visit(S, WhenDefs[expr.wh].lhs) IN
    IF r.s.status # "running" THEN r
    ELSE IF r.v.ref = 0 THEN error(r.s, "When condition must be a variable")
    ELSE R([r.s EXCEPT !.bindings[r.v.ref].when_mutated = expr.wh], undefined)

\* Interpreter.visit_ClassExpr: `with scope:` does not make the new scope
\* current, so the members are evaluated in the defining scope; leaving the
\* block makes the new scope's parent current.
visit_ClassExpr(S, expr) ==
    LET sc == Len(S.scopes) + 1
        S1 == [S EXCEPT !.scopes = Append(@, Scope(S.scope))]
        S2 == visit_block(S1, ClassDefs[expr.cl].body)
    IN  IF S2.status # "running" THEN R(S2, undefined)
        ELSE
          LET S3 == IF S2.scopes[sc].parent # 0
                    THEN [S2 EXCEPT !.scope = S2.scopes[sc].parent] ELSE S2
              id == Len(S3.classobjs) + 1
          IN  IF S3.scope = 0 THEN raise(S3, "AttributeError") ELSE
              R([S3 EXCEPT !.classobjs = Append(@, Class(ClassDefs[expr.cl].name, sc)),
                           !.scopes[S3.scope].classes =
                                MapPut(@, ClassDefs[expr.cl].name, id)],
                undefined)

\* visit_NewExpr with the guard flag never set
visit_NewExpr_no_flag(S, expr) ==
    LET cls == get_class(S, S.scope, expr.name) IN
    IF cls = 0 THEN error(S, "Cannot instantiate non-existent class")
    ELSE IF S.classobjs[cls].has_instance
    THEN error(S, "Can't have more than one instance!")
    ELSE R(S, Value(cls, "Object"))

\* Interpreter.visit_NewExpr
visit_NewExpr(S, expr) ==
    LET cls == get_class(S, S.scope, expr.name) IN
    IF cls = 0 THEN error(S, "Cannot instantiate non-existent class")
    ELSE IF S.classobjs[cls].has_instance
    THEN error(S, "Can't have more than one instance!")
    ELSE R([S EXCEPT !.classobjs[cls].has_instance = TRUE], Value(cls, "Object"))

\* The handlers whose first step reads an attribute of self.scope: with
\* self.scope None they raise AttributeError
ReadsScopeFirst ==
    {"IntegerExpr", "IdentifierExpr", "VariableExpr", "FunctionExpr", "NewExpr",
     "ExportExpr"}

\* Interpreter.visit
visit(S, expr) ==
    IF S.status # "running" THEN R(S, undefined)
    ELSE IF expr.k = "NewlineExpr"
    THEN R(execute_snapshot(S, S.coroutines), undefined)
    ELSE IF S.scope = 0 /\ expr.k \in ReadsScopeFirst
    THEN raise(S, "AttributeError")
    ELSE
      LET validated(r) == IF r.s.status # "running" THEN r ELSE validate(r.s, r.v)
      IN  validated(
               CASE expr.k = "IntegerExpr" -> visit_IntegerExpr(S, expr)
                 [] expr.k = "StringExpr" -> R(S, StringValue(expr.text))
                 [] expr.k = "IdentifierExpr" -> visit_IdentifierExpr(S, expr)
                 [] expr.k = "VariableExpr" -> visit_VariableExpr(S, expr)
                 [] expr.k = "FunctionExpr" -> visit_FunctionExpr(S, expr)
                 [] expr.k = "ReturnExpr" -> visit_ReturnExpr(S, expr)
                 [] expr.k = "CallExpr" -> visit_CallExpr(S, expr)
                 [] expr.k = "DeleteExpr" -> visit_DeleteExpr(S, expr)
                 [] expr.k = "BinaryOpExpr" -> visit_BinaryOpExpr(S, expr)
                 [] expr.k = "UnaryOpExpr" -> visit_UnaryOpExpr(S, expr)
                 [] expr.k = "PreviousExpr" -> visit_PreviousExpr(S, expr)
                 [] expr.k = "ArrayExpr" -> visit_ArrayExpr(S, expr)
                 [] expr.k = "IndexExpr" -> visit_IndexExpr(S, expr)
                 [] expr.k = "NewFileExpr" -> visit_NewFileExpr(S, expr)
                 [] expr.k = "WhenExpr" -> visit_WhenExpr(S, expr)
                 [] expr.k = "ClassExpr" -> visit_ClassExpr(S, expr)
                 [] expr.k = "NewExpr" -> visit_NewExpr(S, expr)
                 [] expr.k = "ExportExpr" -> visit_ExportExpr(S, expr)
                 [] expr.k = "ImportExpr" -> visit_ImportExpr(S, expr)
                 [] expr.k = "ReverseExpr" -> visit_ReverseExpr(S, expr)
                 [] expr.k = "AwaitExpr" -> visit_AwaitExpr(S, expr)
                 [] OTHER -> raise(S, "AttributeError"))

\* [self.visit(arg) for arg in args]
visit_all(S, exprs) ==
    IF exprs = <<>> THEN R(S, <<>>)
    ELSE LET r == visit(S, Head(exprs))
             rest == visit_all(r.s, Tail(exprs))
         IN  R(rest.s, <<r.v>> \o rest.v)

\* for stmt in body: self.visit(stmt)
visit_block(S, stmts) ==
    IF stmts = <<>> \/ S.status # "running" THEN S
    ELSE visit_block(visit(S, Head(stmts)).s, Tail(stmts))

\* the body loop of Function.call (function.py:72-76): stop as soon as the
\* function's own scope holds a return value
visit_body(S, sc, stmts) ==
    IF stmts = <<>> \/ S.status # "running" THEN S
    ELSE LET S1 == visit(S, Head(stmts)).s IN
         IF S1.status = "running" /\ S1.scopes[sc].return_value # None THEN S1
         ELSE visit_body(S1, sc, Tail(stmts))

\* format_value, then str()
format_value(value) ==
    CASE value.type = "Undefined" -> "undefined"
      [] value.type = "Bool" ->
             (IF value.py = "" /\ value.i = BoolTrue THEN "true"
              ELSE IF value.py = "" /\ value.i = BoolFalse THEN "false" ELSE "maybe")
      [] OTHER -> PyStr(value)

\* the builtin print: one line holding the formatted arguments
builtin_print(S, args) ==
    IF \E j \in 1..Len(args) : args[j].type = "Array"
    THEN \* `for elem in value.value` (function.py:100): an Array is not iterable
         raise(S, "TypeError")
    ELSE R([S EXCEPT !.stdout = Append(@, [j \in 1..Len(args) |-> format_value(args[j])])],
           undefined)

\* Function.call; function 0 is the builtin print
call(S, fn, args, await_result) ==
    IF fn = 0 THEN builtin_print(S, args)
    ELSE IF FunctionDefs[fn].is_async /\ ~await_result
    THEN LET c == Len(S.coroobjs) + 1 IN
         R([S EXCEPT !.coroobjs = Append(@, Coroutine(FunctionDefs[fn].body)),
                     !.coroutines = Append(@, c)],
           Value(c, "Coroutine"))
    ELSE IF S.depth >= MaxDepth THEN raise(S, "RecursionError")
    ELSE IF Len(args) < Len(FunctionDefs[fn].args) THEN raise(S, "IndexError")
    ELSE
      LET sc == Len(S.scopes) + 1
          n == Len(FunctionDefs[fn].args)
          S1 == [S EXCEPT
                   !.scopes = Append(@,
                       [Scope(S.scope) EXCEPT !.variables =
                           [a \in {FunctionDefs[fn].args[j] : j \in 1..n} |->
                               Len(S.bindings) +
                               (CHOOSE j \in 1..n :
                                   /\ FunctionDefs[fn].args[j] = a
                                   /\ \A j2 \in (j + 1)..n : FunctionDefs[fn].args[j2] # a)]]),
                   !.bindings = @ \o [j \in 1..n |->
                       Variable(FunctionDefs[fn].args[j], args[j], 0, VarVar)],
                   !.scope = sc,
                   !.depth = @ + 1]
      IN  IF FunctionDefs[fn].is_single_expr
          THEN LET exit(r) ==
                   IF r.s.status # "running" THEN r
                   ELSE R([r.s EXCEPT !.scope = r.s.scopes[sc].parent, !.depth = @ - 1], r.v)
               IN  exit(visit(S1, FunctionDefs[fn].body[1]))
          ELSE LET exit(S2) ==
                   IF S2.status # "running" THEN R(S2, undefined)
                   ELSE R([S2 EXCEPT !.scope = S2.scopes[sc].parent, !.depth = @ - 1],
                          IF S2.scopes[sc].return_value # None
                          THEN S2.scopes[sc].return_value ELSE undefined)
               IN  exit(visit_body(S1, sc, FunctionDefs[fn].body))

\* execute_coroutine with the skip mark cleared and not honoured: the
\* coroutine consumes a statement on its first boundary
execute_coroutine_no_skip(S, c) ==
    IF S.coroobjs[c].body = <<>>
    THEN [S EXCEPT !.coroobjs[c].skip_current_newline = FALSE]
    ELSE
      LET pending == Head(S.coroobjs[c].body)
          S1 == [S EXCEPT !.coroobjs[c].body = Tail(@),
                          !.coroobjs[c].skip_current_newline = FALSE]
      IN  IF pending.k = "StringExpr" THEN S1
          ELSE IF pending.k = "ReturnExpr"
          THEN LET r == visit(S1, pending.expr) IN
               IF r.s.status # "running" THEN r.s
               ELSE LET S2 == [set_result(r.s, c, r.v) EXCEPT !.coroobjs[c].body = <<>>]
                    IN  IF InList(S2.coroutines, c)
                        THEN [S2 EXCEPT !.coroutines = ListRemove(@, c)]
                        ELSE raise(S2, "ValueError").s
          ELSE visit(S1, pending).s

\* One turn of the loop of execute_pending_coroutines (interpreter.py:87-104)
execute_coroutine(S, c) ==
    IF S.coroobjs[c].skip_current_newline
    THEN [S EXCEPT !.coroobjs[c].skip_current_newline = FALSE]
    ELSE IF S.coroobjs[c].body = <<>> THEN S
    ELSE
      LET pending == Head(S.coroobjs[c].body)
          S1 == [S EXCEPT !.coroobjs[c].body = Tail(@)]
      IN  IF pending.k = "StringExpr" THEN S1
          ELSE IF pending.k = "ReturnExpr"
          THEN LET r == visit(S1, pending.expr) IN
               IF r.s.status # "running" THEN r.s
               ELSE LET S2 == [set_result(r.s, c, r.v) EXCEPT !.coroobjs[c].body = <<>>]
                    IN  IF InList(S2.coroutines, c)
                        THEN [S2 EXCEPT !.coroutines = ListRemove(@, c)]
                        ELSE raise(S2, "ValueError").s
          ELSE visit(S1, pending).s

\* Interpreter.execute_pending_coroutines: the loop runs over a copy of the
\* queue taken when it starts
execute_snapshot(S, snapshot) ==
    IF snapshot = <<>> \/ S.status # "running" THEN S
    ELSE execute_snapshot(execute_coroutine(S, Head(snapshot)), Tail(snapshot))

\* the loop leaving when a pass has changed nothing
drain_until_unchanged(S, n) ==
    IF S.status # "running" \/ S.coroutines = <<>> THEN S
    ELSE LET S1 == execute_snapshot(S, S.coroutines) IN
         IF S1 = S THEN S
         ELSE IF n >= MaxDrain
         THEN [S EXCEPT !.status = "hang", !.message = "finalize"]
         ELSE drain(S1, n + 1)

\* while self.coroutines: self.execute_pending_coroutines()
\* A pass that changes nothing repeats for ever.
drain(S, n) ==
    IF S.status # "running" \/ S.coroutines = <<>> THEN S
    ELSE LET S1 == execute_snapshot(S, S.coroutines) IN
         IF S1 = S \/ n >= MaxDrain
         THEN [S EXCEPT !.status = "hang", !.message = "finalize"]
         ELSE drain(S1, n + 1)

----------------------------------------------------------------------------
(* The run: Interpreter.__init__ and the loop of main                      *)

\* The interpreter object as the handlers see it
St ==
    [scopes |-> scopes, scope |-> scope, bindings |-> bindings,
     classobjs |-> classobjs, coroobjs |-> coroobjs, coroutines |-> coroutines,
     arrayobjs |-> arrayobjs, special_values |-> special_values,
     deleted_values |-> deleted_values, filename |-> filename, files |-> files,
     exports |-> exports, status |-> status, message |-> message, depth |-> 0,
     ast |-> ast, stdout |-> stdout]

\* The interpreter object after the step
StNext ==
    [scopes |-> scopes', scope |-> scope', bindings |-> bindings',
     classobjs |-> classobjs', coroobjs |-> coroobjs', coroutines |-> coroutines',
     arrayobjs |-> arrayobjs', special_values |-> special_values',
     deleted_values |-> deleted_values', filename |-> filename', files |-> files',
     exports |-> exports', status |-> status', message |-> message', depth |-> 0,
     ast |-> ast', stdout |-> stdout']

\* Interpreter.__init__
Init ==
    /\ tokens = <<>>
    /\ index = 0
    /\ deleted = {}
    /\ parser_id = 0
    /\ ast = <<>>
    /\ pc = 0
    /\ stdout = <<>>
    /\ scopes = <<Scope(0)>>
    /\ scope = 1
    /\ bindings = <<>>
    /\ classobjs = <<>>
    /\ coroobjs = <<>>
    /\ arrayobjs = <<>>
    /\ special_values = [name \in SPECIAL_NAMES |-> SPECIAL_VALUES(name)]
    /\ coroutines = <<>>
    /\ deleted_values = <<>>
    /\ filename = "main.db"
    /\ files = EmptyMap
    /\ exports = EmptyMap
    /\ status = "running"
    /\ message = ""
    /\ last = [stmt |-> [k |-> "Start"], v |-> undefined]
    /\ since_call = [stmt |-> [k |-> "Start"], newlines |-> 0]

\* Objects no reference reaches are freed by Python, and the numbers the
\* heaps give the objects are not program state.  After each statement the
\* Scope, Variable, Coroutine and Array heaps keep the reachable objects
\* only, in their order of allocation.  A Scope is reached from the current scope
\* chain, from a Class and from Interpreter.files.  A Variable is reached
\* from a reachable scope's map and from Interpreter.exports, and a
\* Coroutine from the pending queue;
\* both are reached from the values that a reachable scope, Variable or
\* Coroutine holds, from the deleted values and from the statement's
\* result; a Variable also from a reachable Coroutine's store.  An Array is
\* reached from the same values, and the values it holds reach further.
RECURSIVE ScopeChain(_, _)
ScopeChain(S, sc) == IF sc = 0 THEN {} ELSE {sc} \cup ScopeChain(S, S.scopes[sc].parent)

LiveScopes(S) ==
    UNION ({ScopeChain(S, S.scope)}
           \cup {ScopeChain(S, S.classobjs[c].scope) : c \in 1..Len(S.classobjs)}
           \cup {ScopeChain(S, S.files[f]) : f \in DOMAIN S.files})

\* the Variables and the Coroutines a set of values refers to
RefsOf(vals) == {val.ref : val \in vals} \ {0}

CorosOf(vals) == {val.i : val \in {w \in vals : PyType(w) = "Coroutine"}}

ArraysOf(vals) == {val.i : val \in {w \in vals : PyType(w) = "Array"}}

RECURSIVE LiveClosure(_, _)
LiveClosure(S, L) ==
    LET held == {S.bindings[b].value : b \in L.b}
                  \cup {S.bindings[b].previous : b \in L.b}
                  \cup {S.coroobjs[c].result : c \in L.c}
                  \cup UNION {{S.arrayobjs[a].values[k] : k \in DOMAIN S.arrayobjs[a].values}
                                 : a \in L.a}
        M == [b |-> L.b \cup RefsOf(held) \cup ({S.coroobjs[c].store : c \in L.c} \ {0}),
              c |-> L.c \cup CorosOf(held),
              a |-> L.a \cup ArraysOf(held)]
    IN  IF M = L THEN L ELSE LiveClosure(S, M)

\* the Variables that Interpreter.exports holds
ExportedVariables(S) ==
    UNION {{S.exports[f][n].id : n \in {m \in DOMAIN S.exports[f] :
                                             S.exports[f][m].kind = "Variable"}}
              : f \in DOMAIN S.exports}

\* the live Variables (b), Coroutines (c) and Arrays (a) when v is the
\* statement's result
Live(S, v) ==
    LET roots == {S.scopes[sc].return_value : sc \in LiveScopes(S)}
                   \cup {S.deleted_values[d] : d \in 1..Len(S.deleted_values)}
                   \cup {S.special_values[n] : n \in DOMAIN S.special_values}
                   \cup {v}
    IN  LiveClosure(S,
            [b |-> UNION {{S.scopes[sc].variables[n] : n \in DOMAIN S.scopes[sc].variables}
                             : sc \in LiveScopes(S)}
                     \cup ExportedVariables(S)
                     \cup RefsOf(roots),
             c |-> {S.coroutines[n] : n \in 1..Len(S.coroutines)} \cup CorosOf(roots),
             a |-> ArraysOf(roots)])

\* the place of a live object among the live objects; 0 stays None
Rank(A, id) == IF id = 0 THEN 0 ELSE Cardinality({a \in A : a <= id})

Nth(A, j) == CHOOSE a \in A : Cardinality({m \in A : m <= a}) = j

MoveValue(L, v) ==
    [v EXCEPT !.ref = Rank(L.b, @),
              !.i = IF PyType(v) = "Coroutine" THEN Rank(L.c, @)
                    ELSE IF PyType(v) = "Array" THEN Rank(L.a, @) ELSE @]

collect(S, v) ==
    CHOOSE T \in {
    LET MoveScope(sc) ==
            [sc EXCEPT !.parent = Rank(LS, @),
                       !.variables = [n \in DOMAIN @ |-> Rank(L.b, @[n])],
                       !.return_value = MoveValue(L, @)]
        MoveVariable(b) ==
            [b EXCEPT !.value = MoveValue(L, @), !.previous = MoveValue(L, @)]
        MoveCoroutine(c) ==
            [c EXCEPT !.store = Rank(L.b, @), !.result = MoveValue(L, @)]
        MoveArray(a) ==
            [a EXCEPT !.values = [k \in DOMAIN @ |-> MoveValue(L, @[k])]]
    IN  [S EXCEPT
           !.scopes = [j \in 1..Cardinality(LS) |-> MoveScope(S.scopes[Nth(LS, j)])],
           !.scope = Rank(LS, @),
           !.bindings = [j \in 1..Cardinality(L.b) |-> MoveVariable(S.bindings[Nth(L.b, j)])],
           !.classobjs = [c \in 1..Len(S.classobjs) |->
                             [S.classobjs[c] EXCEPT !.scope = Rank(LS, @)]],
           !.coroobjs = [j \in 1..Cardinality(L.c) |-> MoveCoroutine(S.coroobjs[Nth(L.c, j)])],
           !.coroutines = [n \in 1..Len(S.coroutines) |-> Rank(L.c, S.coroutines[n])],
           !.arrayobjs = [j \in 1..Cardinality(L.a) |-> MoveArray(S.arrayobjs[Nth(L.a, j)])],
           !.special_values = [n \in DOMAIN @ |-> MoveValue(L, @[n])],
           !.deleted_values = [d \in 1..Len(S.deleted_values) |->
                                  MoveValue(L, S.deleted_values[d])],
           !.files = [f \in DOMAIN S.files |-> Rank(LS, S.files[f])],
           !.exports = [f \in DOMAIN S.exports |-> [n \in DOMAIN S.exports[f] |->
                           IF S.exports[f][n].kind = "Variable"
                           THEN [S.exports[f][n] EXCEPT !.id = Rank(L.b, @)]
                           ELSE S.exports[f][n]]]]
    : LS \in {LiveScopes(S)}, L \in {Live(S, v)} } : TRUE

\* `<tag> name = callee(...)!`
IsDeclarationFromCall(stmt) ==
    IF stmt.k = "VariableExpr" THEN stmt.expr.k = "CallExpr" ELSE FALSE

\* One turn of `for stmt in ast: interpreter.visit(stmt)` (__main__.py:22-23)
Step(stmt) ==
    \E r0 \in {visit(St, stmt)} : \E r \in {R(collect(r0.s, r0.v), MoveValue(Live(r0.s, r0.v), r0.v))} :
         /\ Len(r.s.bindings) <= MaxBindings
         /\ Len(r.s.scopes) <= MaxScopes
         /\ Len(r.s.classobjs) <= MaxClasses
         /\ Len(r.s.coroobjs) <= MaxCoros
         /\ Len(r.s.arrayobjs) <= MaxArrays
         \* a program supplied statement by statement has no end: its output is capped
         /\ (pc = 0 => Len(r.s.stdout) <= MaxOutput)
         /\ UNCHANGED <<tokens, index, deleted, parser_id>>
         /\ ast' = ast
         /\ pc' = (IF pc = 0 THEN 0 ELSE pc + 1)
         /\ stdout' = r.s.stdout
         /\ scopes' = r.s.scopes
         /\ scope' = r.s.scope
         /\ bindings' = r.s.bindings
         /\ classobjs' = r.s.classobjs
         /\ coroobjs' = r.s.coroobjs
         /\ arrayobjs' = r.s.arrayobjs
         /\ special_values' = r.s.special_values
         /\ coroutines' = r.s.coroutines
         /\ deleted_values' = r.s.deleted_values
         /\ filename' = r.s.filename
         /\ files' = r.s.files
         /\ exports' = r.s.exports
         /\ status' = r.s.status
         /\ message' = r.s.message
         /\ last' = [stmt |-> stmt, v |-> r.v]
         /\ since_call' =
                IF IsDeclarationFromCall(stmt) THEN [stmt |-> stmt, newlines |-> 0]
                ELSE IF stmt.k = "NewlineExpr"
                THEN [since_call EXCEPT !.newlines =
                         IF @ < MaxNewlines THEN @ + 1 ELSE MaxNewlines]
                ELSE since_call

\* The loop of main runs out of statements and the process exits
\* (__main__.py:22-26); finalize is not called.
EndOfProgram ==
    /\ status = "running"
    /\ status' = "done"
    /\ last' = [stmt |-> [k |-> "End"], v |-> undefined]
    /\ UNCHANGED <<tokens, index, deleted, parser_id, ast, pc, stdout, scopes, scope, bindings, classobjs, coroobjs, coroutines,
                   arrayobjs, special_values, deleted_values, filename, files, exports, message,
                   since_call>>

VariableTypes == {VarVar, VarConst, ConstVar, ConstConst, ConstConstConst}

----------------------------------------------------------------------------
(* Programs of declarations, assignments and triggers                      *)

\* `<tag> x = 1!` for each of the five tags, `var var y = 1!`, `const var y = 1!`
DeclareTagged ==
    \E e \in {VariableExpr("x", IntegerExpr(1), t, 1) : t \in VariableTypes}
              \cup {VariableExpr("y", IntegerExpr(1), t, 1) : t \in {VarVar, ConstVar}} :
        /\ status = "running"
        /\ Step(e)

\* `x = n!` and `x = y!`
AssignStmt ==
    \E e \in {BinaryOpExpr(IdentifierExpr(name), IntegerExpr(n), "Assign") :
                  name \in {"x", "y"}, n \in {1, 2}}
              \cup {BinaryOpExpr(IdentifierExpr("x"), IdentifierExpr("y"), "Assign")} :
        /\ status = "running"
        /\ Step(e)

\* `when (x = ...) { ... }`
WhenStmt ==
    \E wh \in 1..3 :
        /\ status = "running"
        /\ Step(WhenExpr(wh))

NextAssign == DeclareTagged \/ AssignStmt \/ WhenStmt

SpecAssign == Init /\ [][NextAssign]_vars

\* Two values with the same type and payload
SameContent(a, b) == a.type = b.type /\ a.i = b.i /\ a.s = b.s /\ a.py = b.py

\* The step evaluated a direct assignment `name = ...` whose left-hand side
\* resolved to a binding
IsAssignTo(name) ==
    /\ status = "running"
    /\ last'.stmt.k = "BinaryOpExpr"
    /\ last'.stmt.op = "Assign"
    /\ last'.stmt.lhs.k = "IdentifierExpr"
    /\ last'.stmt.lhs.name = name
    /\ scope # 0
    /\ get_variable(St, scope, name) # 0

\* C1: after a direct assignment `b = v` to a VarVar or VarConst binding has
\* been evaluated, `previous b` is the value b held immediately before the
\* assignment and b's current value is v, whatever was declared, assigned or
\* attached as a trigger before.
C1_AssignCapturesPrevious ==
    [][\A name \in {"x", "y"} :
          (/\ IsAssignTo(name)
           /\ bindings[get_variable(St, scope, name)].type \in {VarVar, VarConst}
           /\ status' = "running")
          => /\ SameContent(visit(StNext, PreviousExpr(IdentifierExpr(name))).v,
                            bindings[get_variable(St, scope, name)].value)
             /\ SameContent(visit(StNext, IdentifierExpr(name)).v,
                            visit(St, last'.stmt.rhs).v)]_vars

\* C1 witness: an assignment to a variable binding with a trigger attached
\* has been evaluated, and the binding's previous and current values differ
C1_Witness ==
    /\ status = "running"
    /\ last.stmt.k = "BinaryOpExpr"
    /\ get_variable(St, scope, "x") # 0
    /\ bindings[get_variable(St, scope, "x")].type = VarConst
    /\ bindings[get_variable(St, scope, "x")].when_mutated # 0
    /\ bindings[get_variable(St, scope, "x")].value.i = 2
    /\ bindings[get_variable(St, scope, "x")].previous.i = 1
    /\ last.stmt.lhs.name = "x"

\* C2: a direct assignment to a ConstVar, ConstConst or ConstConstConst
\* binding ends the run with the diagnostic "Cannot assign to const
\* variable" and leaves the binding's value and previous value as they were;
\* a direct assignment to a VarVar or VarConst binding never raises it (the
\* body of its trigger may, for an assignment of its own).
C2_ConstAssignIsFatal ==
    [][\A name \in {"x", "y"} :
          IsAssignTo(name) =>
             IF bindings[get_variable(St, scope, name)].type
                    \in {ConstVar, ConstConst, ConstConstConst}
             THEN /\ status' = "error"
                  /\ message' = "Cannot assign to const variable"
                  /\ get_variable(StNext, scope', name) # 0
                  /\ bindings'[get_variable(StNext, scope', name)].value =
                         bindings[get_variable(St, scope, name)].value
                  /\ bindings'[get_variable(StNext, scope', name)].previous =
                         bindings[get_variable(St, scope, name)].previous
             ELSE \/ message' # "Cannot assign to const variable"
                  \* the assignment went through; its trigger body raised
                  \/ /\ bindings[get_variable(St, scope, name)].when_mutated # 0
                     /\ SameContent(
                            bindings'[get_variable(StNext, scope', name)].value,
                            visit(St, last'.stmt.rhs).v)]_vars

\* C2 witness: the run has ended on an assignment to a ConstVar binding
C2_Witness ==
    /\ status = "error"
    /\ message = "Cannot assign to const variable"
    /\ last.stmt.k = "BinaryOpExpr"
    /\ last.stmt.lhs.name = "x"
    /\ bindings[get_variable(St, scope, "x")].type = ConstVar

----------------------------------------------------------------------------
(* Programs of numeric names, literals, calls and deletions                *)

\* `var var 5 = "hi"!`, `const const 5 = 2!`
DeclareNumeric ==
    \E value \in {StringExpr("hi"), IntegerExpr(2)}, t \in {VarVar, ConstConst} :
        /\ status = "running"
        /\ Step(VariableExpr("5", value, t, 1))

\* `function lit() => { return 5! ... }`, `function id(a) => a`
DefineSync ==
    \E fn \in {4, 5} :
        /\ status = "running"
        /\ Step(FunctionExpr(fn))

\* `lit()!`, `id(5)!`
CallSync ==
    \E e \in {CallExpr(IdentifierExpr("lit"), <<>>),
              CallExpr(IdentifierExpr("id"), <<IntegerExpr(5)>>)} :
        /\ status = "running"
        /\ Step(e)

\* `5!`, `2!`, `"hi"!`
EvalLiteral ==
    \E e \in {IntegerExpr(5), IntegerExpr(2), StringExpr("hi")} :
        /\ status = "running"
        /\ Step(e)

\* `delete 5!`, `delete "hi"!`
DeleteStmt ==
    \E e \in {IntegerExpr(5), StringExpr("hi")} :
        /\ status = "running"
        /\ Step(DeleteExpr(e))

\* `=====`
NewFileStmt ==
    \E fname \in {"", "b.db"} :
        /\ status = "running"
        /\ Step(NewFileExpr(fname))

NextEval ==
    DeclareNumeric \/ DefineSync \/ CallSync \/ EvalLiteral \/ DeleteStmt \/ NewFileStmt

SpecEval == Init /\ [][NextEval]_vars

\* C3: an integer literal n evaluates to the binding named str(n) (its
\* value, with the back-reference) whenever the scope chain has such a
\* binding, also when the literal is evaluated inside a function body and
\* the binding lives in the enclosing scope; to the integer n otherwise.
\* The statements `5!` and `lit()!` (whose body returns the literal 5) both
\* show the literal's value.
C3_LiteralReadsScopeChain ==
    (/\ status = "running"
     /\ \/ last.stmt = IntegerExpr(5)
        \/ /\ last.stmt = CallExpr(IdentifierExpr("lit"), <<>>)
           /\ get_function(St, scope, "lit") # 0)
    => IF get_variable(St, scope, "5") # 0
       THEN last.v = with_ref(St, get_variable(St, scope, "5"))
       ELSE last.v = Value(5, "Int")

\* C4: after `delete v!` the run goes on, and from then on evaluating a
\* node whose result has v's type and content is the fatal error "has been
\* deleted", while a result of another type is not affected.
C4_DeletePoisonsContent ==
    last.stmt.k = "DeleteExpr"
    => /\ status = "running"
       /\ visit(St, last.stmt.expr).s.status = "error"
       /\ visit(St, last.stmt.expr).s.message = "has been deleted"
       /\ visit(St, StringExpr("5")).s.status = "running"

----------------------------------------------------------------------------
(* Programs of declarations that differ in boldness                        *)

\* `var var x = n!`, `const const x = n!!`, `var var x = n¡`
DeclareBold ==
    \E n \in {1, 2}, t \in {VarVar, ConstConst}, boldness \in {-1, 1, 2} :
        /\ status = "running"
        /\ Step(VariableExpr("x", IntegerExpr(n), t, boldness))

\* `function decl() => { var var x = 2! return x! }`
DefineDecl ==
    /\ status = "running"
    /\ Step(FunctionExpr(7))

\* `decl()!`
CallDecl ==
    /\ status = "running"
    /\ Step(CallExpr(IdentifierExpr("decl"), <<>>))

NextDecl == DeclareBold \/ AssignStmt \/ WhenStmt \/ DefineDecl \/ CallDecl

SpecDecl == Init /\ [][NextDecl]_vars

\* Nothing the interpreter can reach changed in the step (the result of the
\* previous statement is dropped when the next one is evaluated)
InterpreterUnchanged == collect(StNext, undefined) = collect(St, undefined)

\* The step evaluated a declaration of a name the scope chain already binds
IsRedeclaration ==
    /\ status = "running"
    /\ last'.stmt.k = "VariableExpr"
    /\ get_variable(St, scope, last'.stmt.name) # 0

\* The name is bound in the current scope as the declaration says
DeclaredAsStated ==
    /\ status' = "running"
    /\ last'.stmt.name \in DOMAIN scopes'[scope'].variables
    /\ LET new == bindings'[scopes'[scope'].variables[last'.stmt.name]] IN
         /\ new.boldness = last'.stmt.boldness
         /\ new.type = last'.stmt.type
         /\ new.value = visit(St, last'.stmt.expr).v
         /\ new.previous = new.value
         /\ new.when_mutated = 0

\* The step called decl(), which declares x with boldness 1 in its own
\* scope, while the scope chain already binds x
IsNestedRedeclaration ==
    /\ status = "running"
    /\ last'.stmt = CallExpr(IdentifierExpr("decl"), <<>>)
    /\ get_function(St, scope, "decl") # 0
    /\ get_variable(St, scope, "x") # 0

\* C5 (as amended): a declaration of a name the scope chain already binds
\* is ignored exactly when its boldness is strictly less than the existing
\* binding's; with equal or greater boldness a new binding with the declared
\* value, tag and boldness is installed under the name in the current scope,
\* which leaves a binding of an enclosing scope as it was.
C5_IgnoredOnlyWhenLessBold ==
    [][(IsRedeclaration =>
            IF bindings[get_variable(St, scope, last'.stmt.name)].boldness
                   > last'.stmt.boldness
            THEN InterpreterUnchanged
            ELSE DeclaredAsStated)
       /\
       (IsNestedRedeclaration =>
            IF bindings[get_variable(St, scope, "x")].boldness > 1
            THEN /\ InterpreterUnchanged
                 /\ last'.v = with_ref(St, get_variable(St, scope, "x"))
            ELSE /\ status' = "running"
                 /\ SameContent(last'.v, Value(2, "Int"))
                 /\ last'.v.ref # 0
                 /\ last'.v.ref # get_variable(StNext, scope', "x")
                 /\ bindings'[get_variable(StNext, scope', "x")] =
                        bindings[get_variable(St, scope, "x")])]_vars

\* C5 witness: decl() has declared x with boldness 1 while the enclosing
\* scope binds x with boldness 1, and a second binding of x was installed
C5_Witness ==
    /\ status = "running"
    /\ last.stmt = CallExpr(IdentifierExpr("decl"), <<>>)
    /\ get_variable(St, scope, "x") # 0
    /\ bindings[get_variable(St, scope, "x")].boldness = 1
    /\ bindings[get_variable(St, scope, "x")].value.i = 1
    /\ last.v.ref \notin {0, get_variable(St, scope, "x")}
    /\ bindings[last.v.ref].boldness = 1
    /\ bindings[last.v.ref].value.i = 2

\* C5 (as stated): a declaration of a name the scope chain already binds
\* is ignored whenever its boldness does not exceed the existing binding's,
\* equal boldness included, and replaces the binding only when its boldness
\* is strictly greater.
C5_IgnoredUnlessBolder ==
    [][IsRedeclaration =>
          IF bindings[get_variable(St, scope, last'.stmt.name)].boldness
                 >= last'.stmt.boldness
          THEN InterpreterUnchanged
          ELSE DeclaredAsStated]_vars

----------------------------------------------------------------------------
(* Programs of class definitions and instantiations                        *)

\* `class Foo { var var a = 1! }`, `class Bar { }`
ClassStmt ==
    \E cl \in 1..Len(ClassDefs) :
        /\ status = "running"
        /\ Step(ClassExpr(cl))

\* `new Foo()!`
NewStmt ==
    \E name \in {"Foo", "Bar"} :
        /\ status = "running"
        /\ Step(NewExpr(name))

NextClass == ClassStmt \/ NewStmt \/ NewFileStmt \/ DeclareTagged

SpecClass == Init /\ [][NextClass]_vars

\* The step evaluated `new name(...)` and the name resolved to a class
IsNew ==
    /\ status = "running"
    /\ last'.stmt.k = "NewExpr"
    /\ get_class(St, scope, last'.stmt.name) # 0

\* C6: at most one `new` of a class object succeeds.  The first returns an
\* instance handle and sets the class's guard flag; a `new` of a class
\* whose flag is set is the fatal error "Can't have more than one
\* instance!"; and no statement clears the flag of a class object.
C6_AtMostOneInstance ==
    [][(\A c \in 1..Len(classobjs) :
            classobjs[c].has_instance =>
                /\ c <= Len(classobjs')
                /\ classobjs'[c].name = classobjs[c].name
                /\ classobjs'[c].has_instance)
       /\
       (IsNew =>
            IF classobjs[get_class(St, scope, last'.stmt.name)].has_instance
            THEN /\ status' = "error"
                 /\ message' = "Can't have more than one instance!"
                 /\ classobjs' = classobjs
            ELSE /\ status' = "running"
                 /\ last'.v = Value(get_class(St, scope, last'.stmt.name), "Object")
                 /\ classobjs'[get_class(St, scope, last'.stmt.name)].has_instance)]_vars

\* C6 witness: a second `new Foo()` has ended the run, with other
\* statements evaluated since Foo was defined
C6_Witness ==
    /\ status = "error"
    /\ message = "Can't have more than one instance!"
    /\ last.stmt = NewExpr("Foo")
    /\ get_class(St, scope, "Foo") # 0
    /\ classobjs[get_class(St, scope, "Foo")].has_instance
    /\ get_variable(St, scope, "x") # 0

----------------------------------------------------------------------------
(* Programs of async functions, newline markers and file boundaries        *)

\* `async function f() => { return 1! }` and the other async functions
DefineAsync ==
    \E fn \in {1, 2, 3, 6, 10} :
        /\ status = "running"
        /\ Step(FunctionExpr(fn))

\* `var var x = f()!`, without await
DeclareCall ==
    \E callee \in {"f", "g", "h", "nf", "r"} :
        /\ status = "running"
        /\ Step(VariableExpr("x", CallExpr(IdentifierExpr(callee), <<>>), VarVar, 1))

\* the newline marker the parser puts after a statement that ends its line
NewlineStmt ==
    /\ status = "running"
    /\ Step(NewlineExpr)

\* the main loop has evaluated the last statement
EndStmt ==
    /\ EndOfProgram
    /\ since_call' = since_call

\* `=====`, the file boundary without a file name
BoundaryStmt ==
    /\ status = "running"
    /\ Step(NewFileExpr(""))

NextAsync == DefineAsync \/ DeclareCall \/ NewlineStmt \/ BoundaryStmt

SpecAsync == Init /\ [][NextAsync]_vars

\* Programs that run to their end, without file boundaries
NextEnd == DefineAsync \/ DeclareCall \/ NewlineStmt \/ EndStmt

SpecEnd == Init /\ [][NextEnd]_vars

\* `var var x = f()!` was the last declaration from a call, n newline
\* markers have been evaluated since (MaxNewlines stands for that many or
\* more), and the scope chain still binds x
AfterCallOf_f(n) ==
    /\ status = "running"
    /\ since_call.stmt =
          VariableExpr("x", CallExpr(IdentifierExpr("f"), <<>>), VarVar, 1)
    /\ since_call.newlines = n
    /\ get_variable(St, scope, "x") # 0

\* what reading x yields
ReadOf_x == visit(St, IdentifierExpr("x")).v

\* C7 (as amended): a variable declared with the result of calling the async
\* f (body `return 1`) without await reads Undefined before any newline
\* boundary is crossed and still reads Undefined after exactly one crossing,
\* which only clears the coroutine's skip mark; it reads 1 after the second
\* crossing and from then on.
C7_ResultAfterSecondCrossing ==
    \A n \in 0..MaxNewlines :
        AfterCallOf_f(n) =>
            SameContent(ReadOf_x, IF n >= 2 THEN Value(1, "Int") ELSE undefined)

\* C7 witness: two newline markers after `var var x = f()!`, x reads 1
C7_Witness ==
    /\ AfterCallOf_f(2)
    /\ last.stmt = NewlineExpr
    /\ SameContent(ReadOf_x, Value(1, "Int"))
    /\ bindings[get_variable(St, scope, "x")].previous = undefined

\* C7 (as stated): the variable reads Undefined before any newline boundary
\* is crossed, and 1 after exactly one crossing following the call.
C7_ResultAfterOneCrossing ==
    /\ AfterCallOf_f(0) => SameContent(ReadOf_x, undefined)
    /\ AfterCallOf_f(1) => SameContent(ReadOf_x, Value(1, "Int"))

\* The pending coroutines, in the order of the queue
PendingBefore == [n \in 1..Len(coroutines) |-> coroobjs[coroutines[n]]]

PendingAfter == [n \in 1..Len(coroutines') |-> coroobjs'[coroutines'[n]]]

\* The coroutine is due a statement and that statement is a return
TakesReturn(c) ==
    /\ ~c.skip_current_newline
    /\ c.body # <<>>
    /\ Head(c.body).k = "ReturnExpr"

\* The coroutine is due a statement and that statement is a file boundary
TakesBoundary(c) ==
    /\ ~c.skip_current_newline
    /\ c.body # <<>>
    /\ Head(c.body).k = "NewFileExpr"

\* The body and the skip mark one boundary gives a coroutine that stays
\* pending: the mark cleared and no statement consumed, or else exactly one
\* statement consumed
SteppedOnce(c, d) ==
    IF c.skip_current_newline
    THEN d.body = c.body /\ ~d.skip_current_newline
    ELSE /\ ~d.skip_current_newline
         /\ d.body = IF c.body = <<>> THEN <<>> ELSE Tail(c.body)

\* The step evaluated a newline marker and the evaluation returned
IsNewline ==
    /\ status = "running"
    /\ last'.stmt = NewlineExpr
    /\ status' = "running"

\* A newline marker steps each pending coroutine once: those that take
\* their return leave the queue, the others stay in their order, stepped
\* once, followed by the coroutines created during the pass, which have
\* consumed nothing and keep their skip mark
OneStepEach ==
    LET stay == SelectSeq(PendingBefore, LAMBDA c : ~TakesReturn(c)) IN
    /\ Len(PendingAfter) >= Len(stay)
    /\ \A n \in 1..Len(stay) : SteppedOnce(stay[n], PendingAfter[n])
    /\ \A n \in (Len(stay) + 1)..Len(PendingAfter) :
          /\ PendingAfter[n].skip_current_newline
          /\ PendingAfter[n].result = None
          /\ \E fn \in 1..Len(FunctionDefs) :
                PendingAfter[n].body = FunctionDefs[fn].body

\* C8 (as amended): on each evaluation of a newline marker during which no
\* consumed statement is a file boundary, every pending coroutine that is
\* not marked skip-first consumes exactly one statement of its remaining
\* body (none if the body is empty), a coroutine marked skip-first has its
\* mark cleared and consumes nothing, and a coroutine created during the
\* pass consumes nothing.
C8_OneStatementPerBoundary ==
    [][(/\ IsNewline
        /\ \A n \in 1..Len(PendingBefore) : ~TakesBoundary(PendingBefore[n]))
       => OneStepEach]_vars

\* C8 witness: a newline marker has made g consume its call of f, and the
\* coroutine of that call waits behind it with its skip mark
C8_Witness ==
    /\ status = "running"
    /\ last.stmt = NewlineExpr
    /\ Len(coroutines) = 2
    /\ coroobjs[coroutines[1]].body = SubSeq(FunctionDefs[2].body, 4, 5)
    /\ coroobjs[coroutines[2]].body = FunctionDefs[1].body
    /\ coroobjs[coroutines[2]].skip_current_newline

\* C8 (as stated): on each evaluation of a newline marker every pending
\* coroutine consumes exactly one statement, or has its skip mark cleared
\* instead, and none consumes two.
C8_OneStatementPerMarker ==
    [][IsNewline => OneStepEach]_vars

\* C9: when the end of the program is reached the pending queue is drained,
\* so the run ends with no coroutine pending.
C9_EndDrainsQueue ==
    status = "done" => coroutines = <<>>

\* The step evaluated a file boundary, as a statement of the program or as
\* the statement a pending coroutine was due, and the evaluation returned
IsBoundary ==
    /\ status = "running"
    /\ status' = "running"
    /\ \/ last'.stmt.k = "NewFileExpr"
       \/ /\ last'.stmt = NewlineExpr
          /\ \E n \in 1..Len(PendingBefore) : TakesBoundary(PendingBefore[n])

\* C10: when the evaluation of a file boundary returns, the pending queue is
\* empty and the current scope is a fresh root scope: no parent, no
\* variable, function or class; the deleted values carry over.
C10_BoundaryDrainsAndResets ==
    [][IsBoundary =>
          /\ coroutines' = <<>>
          /\ scopes'[scope'] = Scope(0)
          /\ visit(StNext, IdentifierExpr("x")).v = StringValue("x")
          /\ visit(StNext, IdentifierExpr("f")).v = StringValue("f")
          /\ deleted_values' = deleted_values]_vars

\* C10 witness: a file boundary right after `var var x = f()!`, with the
\* coroutine of that call pending when the boundary was reached
C10_Witness ==
    /\ status = "running"
    /\ last.stmt = NewFileExpr("")
    /\ since_call.stmt =
          VariableExpr("x", CallExpr(IdentifierExpr("f"), <<>>), VarVar, 1)
    /\ since_call.newlines = 0
    /\ coroutines = <<>>
    /\ scopes[scope] = Scope(0)

----------------------------------------------------------------------------
(* Programs that export and import across named files                      *)

\* `var var x = 1!`, `var var x = 2!`
DeclareExported ==
    \E n \in {1, 2} :
        /\ status = "running"
        /\ Step(VariableExpr("x", IntegerExpr(n), VarVar, 1))

\* `class Bar { }`, once in a program
DefineExported ==
    /\ status = "running"
    /\ classobjs = <<>>
    /\ Step(ClassExpr(2))

\* `export x to "b.db"!`, `export Bar to "b.db"!`
ExportStmt ==
    \E symbol \in {"x", "Bar"}, to \in {"b.db"} :
        /\ status = "running"
        /\ Step(ExportExpr(symbol, to))

\* `import x!`, `import Bar!`
ImportStmt ==
    \E symbol \in {"x", "Bar"} :
        /\ status = "running"
        /\ Step(ImportExpr(symbol))

\* `===== a.db =====`, `===== b.db =====`
NamedFileStmt ==
    \E fname \in {"a.db", "b.db"} :
        /\ status = "running"
        /\ Step(NewFileExpr(fname))

\* `x = 1!`, `x = 2!`
AssignExported ==
    \E n \in {1, 2} :
        /\ status = "running"
        /\ Step(BinaryOpExpr(IdentifierExpr("x"), IntegerExpr(n), "Assign"))

\* `new Bar()!`
NewExported ==
    /\ status = "running"
    /\ Step(NewExpr("Bar"))

NextExport ==
    \/ DeclareExported \/ DefineExported \/ ExportStmt \/ ImportStmt
    \/ NamedFileStmt \/ AssignExported \/ NewExported

SpecExport == Init /\ [][NextExport]_vars

\* The object a name resolves to from a scope, as export looks it up:
\* the binding first, then the function, then the class
Resolve(S, sc, name) ==
    IF get_variable(S, sc, name) # 0
    THEN [kind |-> "Variable", id |-> get_variable(S, sc, name)]
    ELSE IF get_function(S, sc, name) # 0
    THEN [kind |-> "Function", id |-> get_function(S, sc, name)]
    ELSE [kind |-> "Class", id |-> get_class(S, sc, name)]

\* The export table holds, under the file and the name, this Variable
Exported(S, f, name, id) ==
    /\ f \in DOMAIN S.exports
    /\ name \in DOMAIN S.exports[f]
    /\ S.exports[f][name] = [kind |-> "Variable", id |-> id]

\* The step evaluated `import symbol!` while the table of the current file
\* held the symbol
IsImport ==
    /\ status = "running"
    /\ last'.stmt.k = "ImportExpr"
    /\ filename \in DOMAIN exports
    /\ last'.stmt.symbol \in DOMAIN exports[filename]

\* The step evaluated `export symbol to "f"!` and the symbol resolved
IsExport ==
    /\ status = "running"
    /\ last'.stmt.k = "ExportExpr"
    /\ Resolve(St, scope, last'.stmt.symbol).id # 0

\* C11: `export x to "f"` records under ("f", x) the object that x
\* resolves to in the exporter's scope; `import x` while the current file
\* is "f" binds x in the current scope to that very object (a Variable, or
\* a Class with its instance flag), not a copy; so an assignment `x = n`
\* through the current scope's x sets the value to n and the previous
\* value to the old value in the exported object and in every file scope
\* that binds x to the same object.
C11_ImportSharesExportedObject ==
    [][(IsExport =>
            /\ status' = "running"
            /\ exports'[last'.stmt.to][last'.stmt.symbol]
                   = Resolve(StNext, scope', last'.stmt.symbol))
       /\
       (IsImport =>
            /\ status' = "running"
            /\ exports'[filename'][last'.stmt.symbol].kind
                   = exports[filename][last'.stmt.symbol].kind
            /\ IF exports[filename][last'.stmt.symbol].kind = "Variable"
               THEN /\ scopes'[scope'].variables[last'.stmt.symbol]
                           = exports'[filename'][last'.stmt.symbol].id
                    /\ SameContent(
                           bindings'[exports'[filename'][last'.stmt.symbol].id].value,
                           bindings[exports[filename][last'.stmt.symbol].id].value)
               ELSE /\ scopes'[scope'].classes[last'.stmt.symbol]
                           = exports'[filename'][last'.stmt.symbol].id
                    /\ classobjs'[exports'[filename'][last'.stmt.symbol].id]
                           = classobjs[exports[filename][last'.stmt.symbol].id])
       /\
       ((IsAssignTo("x") /\ status' = "running") =>
            /\ \A f \in DOMAIN exports :
                   Exported(St, f, "x", get_variable(St, scope, "x")) =>
                       /\ Exported(StNext, f, "x", get_variable(StNext, scope', "x"))
                       /\ bindings'[exports'[f]["x"].id].value.i = last'.stmt.rhs.value
                       /\ SameContent(bindings'[exports'[f]["x"].id].previous,
                                      bindings[exports[f]["x"].id].value)
            /\ \A f \in DOMAIN files :
                   get_variable(St, files[f], "x") = get_variable(St, scope, "x") =>
                       /\ get_variable(StNext, files'[f], "x")
                              = get_variable(StNext, scope', "x")
                       /\ bindings'[get_variable(StNext, files'[f], "x")].value.i
                              = last'.stmt.rhs.value)]_vars

\* x was exported from a.db and imported in b.db, and an assignment in
\* b.db is seen through the exporter's scope
C11_Witness ==
    /\ status = "running"
    /\ last.stmt = BinaryOpExpr(IdentifierExpr("x"), IntegerExpr(2), "Assign")
    /\ filename = "b.db"
    /\ DOMAIN files = {"a.db", "b.db"}
    /\ scope = files["b.db"]
    /\ "x" \in DOMAIN scopes[files["a.db"]].variables
    /\ "x" \in DOMAIN scopes[scope].variables
    /\ scopes[files["a.db"]].variables["x"] = scopes[scope].variables["x"]
    /\ Exported(St, "b.db", "x", scopes[scope].variables["x"])
    /\ bindings[scopes[scope].variables["x"]].value.i = 2
    /\ bindings[scopes[scope].variables["x"]].previous.i = 1

----------------------------------------------------------------------------
(* Whole programs with `reverse`                                           *)

\* `print("A")!`, `print("B")!`, `var var x = 1!`, `print(x)!`, a newline
\* marker and `reverse!`
ProgramStatements ==
    {CallExpr(IdentifierExpr("print"), <<StringExpr("A")>>),
     CallExpr(IdentifierExpr("print"), <<StringExpr("B")>>),
     VariableExpr("x", IntegerExpr(1), VarVar, 1),
     CallExpr(IdentifierExpr("print"), <<IdentifierExpr("x")>>),
     NewlineExpr,
     ReverseExpr(0)}

\* Parser.parse: the list of the statements, each node with its own span
Programs ==
    {[j \in 1..MaxProgram |-> IF p[j].k = "ReverseExpr" THEN ReverseExpr(j) ELSE p[j]] :
        p \in [1..MaxProgram -> ProgramStatements]}

\* Interpreter.__init__ with the parsed program
InitProgram ==
    /\ tokens = <<>>
    /\ index = 0
    /\ deleted = {}
    /\ parser_id = 0
    /\ ast \in Programs
    /\ pc = 1
    /\ stdout = <<>>
    /\ scopes = <<Scope(0)>>
    /\ scope = 1
    /\ bindings = <<>>
    /\ classobjs = <<>>
    /\ coroobjs = <<>>
    /\ arrayobjs = <<>>
    /\ special_values = [name \in SPECIAL_NAMES |-> SPECIAL_VALUES(name)]
    /\ coroutines = <<>>
    /\ deleted_values = <<>>
    /\ filename = "main.db"
    /\ files = EmptyMap
    /\ exports = EmptyMap
    /\ status = "running"
    /\ message = ""
    /\ last = [stmt |-> [k |-> "Start"], v |-> undefined]
    /\ since_call = [stmt |-> [k |-> "Start"], newlines |-> 0]

\* One turn of the loop of main over the program
RunStmt ==
    /\ status = "running"
    /\ pc \in 1..Len(ast)
    /\ Step(ast[pc])

\* The loop of main has evaluated the last statement
ProgramEnd ==
    /\ pc > Len(ast)
    /\ EndOfProgram

NextReverse == RunStmt \/ ProgramEnd

SpecReverse == InitProgram /\ [][NextReverse]_vars

\* the `reverse` statements of the program
ReverseCount == Cardinality({j \in 1..Len(ast) : ast[j].k = "ReverseExpr"})

\* The loop of main evaluates the only `reverse` of the program
IsOnlyReverse ==
    /\ status = "running"
    /\ pc \in 1..Len(ast)
    /\ ast[pc].k = "ReverseExpr"
    /\ last'.stmt = ast[pc]
    /\ ReverseCount = 1

\* the statements of the program other than its statement j, in source order
OtherStatements(j) == [n \in 1..(Len(ast) - 1) |-> IF n < j THEN ast[n] ELSE ast[n + 1]]

\* stmts[n], then stmts[n - 1], ..., then stmts[1], evaluated one after the other
RECURSIVE EvalBackwards(_, _, _)
EvalBackwards(S, stmts, n) ==
    IF n = 0 THEN S ELSE EvalBackwards(visit(S, stmts[n]).s, stmts, n - 1)

\* the interpreter with a new root scope current
FreshRoot(S) == [S EXCEPT !.scopes = Append(@, Scope(0)), !.scope = Len(S.scopes) + 1]

\* C12: evaluating the only `reverse` of a program leaves the interpreter
\* (output included) as evaluating the other top-level statements one by
\* one, last to first in source order, from a new root scope leaves it; in
\* particular `print(x)!` as the last statement prints the name x, not the
\* value of a binding x made before the reverse.
C12_ReverseReplaysBackwards ==
    [][IsOnlyReverse =>
          /\ collect(StNext, undefined)
                 = collect(EvalBackwards(FreshRoot(St), OtherStatements(pc),
                                         Len(ast) - 1), undefined)
          /\ (ast[Len(ast)] = CallExpr(IdentifierExpr("print"), <<IdentifierExpr("x")>>)
                  => stdout'[Len(stdout) + 1] = <<"x">>)]_vars

\* `var var x = 1! print("A")! reverse! print(x)!` has evaluated its
\* reverse: the replay printed x, then A, and bound x last
C12_Witness ==
    /\ status = "running"
    /\ ast = <<VariableExpr("x", IntegerExpr(1), VarVar, 1),
               CallExpr(IdentifierExpr("print"), <<StringExpr("A")>>),
               ReverseExpr(3),
               CallExpr(IdentifierExpr("print"), <<IdentifierExpr("x")>>)>>
    /\ last.stmt = ReverseExpr(3)
    /\ stdout = << <<"A">>, <<"x">>, <<"A">> >>
    /\ get_variable(St, scope, "x") # 0

\* C19 (as stated): a program with two `reverse` statements is evaluated to
\* its end; the second reverse, met inside the replay of the first, does
\* not send the evaluation into a recursion that the Python stack ends.
C19_DoubleReverseTerminates ==
    ReverseCount = 2 => ~(status = "crash" /\ message = "RecursionError")

----------------------------------------------------------------------------
(* Programs of comparisons and arithmetic                                  *)

\* `var var x = n!`, `var var y = n!`, and the number name `var var 0 = n!`
DeclareOperand ==
    \E name \in {"x", "y", "0"}, n \in {0, 1} :
        /\ status = "running"
        /\ Step(VariableExpr(name, IntegerExpr(n), VarVar, 1))

\* the operands of the expression statements
Operands ==
    {IdentifierExpr("x"), IdentifierExpr("y"), IntegerExpr(0), IntegerExpr(1),
     StringExpr("1")}

\* `a ==== b!`, `a ;==== b!`
CompareStmt ==
    \E a \in Operands, b \in Operands, op \in {"QuadEq", "NQuadEq"} :
        /\ status = "running"
        /\ Step(BinaryOpExpr(a, b, op))

\* `a + b!`, `a / b!`
ArithStmt ==
    \E a \in Operands, b \in Operands, op \in {"Plus", "Div"} :
        /\ status = "running"
        /\ Step(BinaryOpExpr(a, b, op))

NextOps == DeclareOperand \/ CompareStmt \/ ArithStmt

SpecOps == Init /\ [][NextOps]_vars

\* The step evaluated `a op b` as a statement
IsBinary(op) ==
    /\ status = "running"
    /\ last'.stmt.k = "BinaryOpExpr"
    /\ last'.stmt.op = op

\* the operands of the statement of the step, evaluated before the step
LeftOperand == visit(St, last'.stmt.lhs).v

RightOperand == visit(St, last'.stmt.rhs).v

\* C13: `a ==== b` is true exactly when a and b were read from the same
\* binding, when both were read from a binding; and when neither was, it
\* is true exactly when a and b have the same type and the same content,
\* which is the result of `a === b`.
C13_QuadEqComparesBindings ==
    [][IsBinary("QuadEq") =>
          /\ status' = "running"
          /\ (LeftOperand.ref # 0 /\ RightOperand.ref # 0) =>
                 last'.v = Value(IF LeftOperand.ref = RightOperand.ref
                                 THEN BoolTrue ELSE BoolFalse, "Bool")
          /\ (LeftOperand.ref = 0 /\ RightOperand.ref = 0) =>
                 /\ last'.v = Value(IF SameContent(LeftOperand, RightOperand)
                                    THEN BoolTrue ELSE BoolFalse, "Bool")
                 /\ last'.v = visit(St, BinaryOpExpr(last'.stmt.lhs, last'.stmt.rhs,
                                                     "TripleEq")).v]_vars

\* `x ==== y!` is false although x and y hold the same number
C13_Witness ==
    /\ status = "running"
    /\ last.stmt = BinaryOpExpr(IdentifierExpr("x"), IdentifierExpr("y"), "QuadEq")
    /\ last.v = Value(BoolFalse, "Bool")
    /\ get_variable(St, scope, "x") # 0
    /\ get_variable(St, scope, "y") # 0
    /\ SameContent(bindings[get_variable(St, scope, "x")].value,
                   bindings[get_variable(St, scope, "y")].value)

\* C18: `a / b` with a and b of a numeric type and b equal to zero evaluates
\* to Undefined: the run goes on without a diagnostic or an exception, and
\* no binding, scope or other part of the interpreter changes.
C18_DivisionByZeroIsUndefined ==
    [][(/\ IsBinary("Div")
        /\ LeftOperand.type \in INTEGER_TYPES
        /\ RightOperand.type \in INTEGER_TYPES
        /\ RightOperand.i = 0) =>
          /\ status' = "running"
          /\ message' = message
          /\ last'.v = undefined
          /\ InterpreterUnchanged]_vars

\* `x / y!` with x = 1 and y = 0 has evaluated to Undefined
C18_Witness ==
    /\ status = "running"
    /\ last.stmt = BinaryOpExpr(IdentifierExpr("x"), IdentifierExpr("y"), "Div")
    /\ last.v = undefined
    /\ get_variable(St, scope, "x") # 0
    /\ get_variable(St, scope, "y") # 0
    /\ bindings[get_variable(St, scope, "x")].value = Value(1, "Int")
    /\ bindings[get_variable(St, scope, "y")].value = Value(0, "Int")

----------------------------------------------------------------------------
(* Programs whose statements push and pop scopes                           *)

\* `when (x = ...) { print(x)! var var t = 3! }`,
\* `when (x = ...) { print(x)! ===== }`
WatchStmt ==
    \E wh \in {4, 5} :
        /\ status = "running"
        /\ Step(WhenExpr(wh))

\* `var var x = 1!`
DeclareWatched ==
    /\ status = "running"
    /\ Step(VariableExpr("x", IntegerExpr(1), VarVar, 1))

\* `x = 1!`, `x = 2!`
AssignWatched ==
    \E n \in {1, 2} :
        /\ status = "running"
        /\ Step(BinaryOpExpr(IdentifierExpr("x"), IntegerExpr(n), "Assign"))

NextScope ==
    DeclareWatched \/ AssignWatched \/ WatchStmt \/ DefineSync \/ CallSync \/ ClassStmt

SpecScope == Init /\ [][NextScope]_vars

\* The step evaluated a direct assignment to x, which carries a trigger,
\* and the assignment returned
IsTriggeredAssign ==
    /\ IsAssignTo("x")
    /\ bindings[get_variable(St, scope, "x")].when_mutated # 0
    /\ status' = "running"

\* C14 (as stated): a successful direct assignment to a binding with a
\* trigger runs the body once, after the new value is installed (a body
\* that starts with `print(x)!` prints the assigned value, once), in a
\* pushed child scope, and the scope that was current before the
\* assignment is current after it.
C14_TriggerRunsOnceAndRestoresScope ==
    [][IsTriggeredAssign =>
          /\ bindings[get_variable(St, scope, "x")].when_mutated \in {4, 5} =>
                 stdout' = Append(stdout, <<format_value(visit(St, last'.stmt.rhs).v)>>)
          /\ scope' = scope]_vars

\* The step evaluated, and returned from, a call of a function that is not
\* async, a class definition, or an assignment that ran a trigger
IsScopedStep ==
    /\ status = "running"
    /\ status' = "running"
    /\ scope # 0
    /\ \/ last'.stmt.k = "ClassExpr"
       \/ /\ last'.stmt.k = "CallExpr"
          /\ get_function(St, scope, last'.stmt.callee.name) # 0
          /\ ~FunctionDefs[get_function(St, scope, last'.stmt.callee.name)].is_async
       \/ IsTriggeredAssign

\* C17 (as stated): after a call of a function that is not async, a class
\* definition or a trigger run has finished, the current scope is the
\* scope that was current before it started.
C17_ScopeBalanced ==
    [][IsScopedStep => scope' = scope]_vars

----------------------------------------------------------------------------
(* Programs that await                                                     *)

\* `await f()!`, and the same for g, h and nf
AwaitStmt ==
    \E callee \in {"f", "g", "h", "nf"} :
        /\ status = "running"
        /\ Step(AwaitExpr(CallExpr(IdentifierExpr(callee), <<>>)))

NextAwait == DefineAsync \/ DeclareCall \/ AwaitStmt \/ NewlineStmt

SpecAwait == Init /\ [][NextAwait]_vars

\* The step evaluated `await callee()!` and callee resolved to this function
IsAwaitOf(fn) ==
    /\ status = "running"
    /\ last'.stmt.k = "AwaitExpr"
    /\ get_variable(St, scope, last'.stmt.expr.callee.name) = 0
    /\ get_function(St, scope, last'.stmt.expr.callee.name) = fn

\* the statements of a body that an awaited call evaluates: up to and
\* including the first return
RECURSIVE UpToReturn(_)
UpToReturn(body) ==
    IF body = <<>> THEN <<>>
    ELSE IF Head(body).k = "ReturnExpr" THEN <<Head(body)>>
    ELSE <<Head(body)>> \o UpToReturn(Tail(body))

\* no statement the awaited call evaluates is a file boundary or a reverse
BodyKeepsScope(fn) ==
    \A j \in 1..Len(FunctionDefs[fn].body) :
        FunctionDefs[fn].body[j].k \notin {"NewFileExpr", "ReverseExpr"}

\* no statement the awaited call evaluates is a call or a file boundary
BodyLeavesQueue(fn) ==
    \A j \in 1..Len(UpToReturn(FunctionDefs[fn].body)) :
        UpToReturn(FunctionDefs[fn].body)[j].k
            \in {"ReturnExpr", "BinaryOpExpr", "StringExpr"}

\* the value of the first `return n!` of a body, Undefined without one
ReturnedBy(fn) ==
    LET ran == UpToReturn(FunctionDefs[fn].body) IN
    IF ran # <<>> /\ ran[Len(ran)].k = "ReturnExpr"
    THEN Value(ran[Len(ran)].expr.value, "Int") ELSE undefined

\* C15: `await` on a call of an async function whose body holds no file
\* boundary evaluates the body up to its first return and gives that
\* return value (Undefined when the body has none); the await itself
\* enqueues no coroutine and steps none, so the pending queue and every
\* pending coroutine are the same before and after it when the statements
\* it evaluates hold no call and no file boundary; an un-awaited call of
\* an async function among them leaves its coroutine at the end of the
\* queue.
C15_AwaitRunsBodyDirectly ==
    [][\A fn \in {1, 2, 3, 6} :
          (IsAwaitOf(fn) /\ status' = "running") =>
              /\ BodyKeepsScope(fn) => last'.v = ReturnedBy(fn)
              /\ BodyLeavesQueue(fn) => (coroutines' = coroutines /\ coroobjs' = coroobjs)
              /\ fn = 2 =>
                     (/\ coroobjs' = Append(coroobjs, Coroutine(FunctionDefs[1].body))
                      /\ coroutines' = Append(coroutines, Len(coroobjs')))]_vars

\* `await f()!` has returned 1 while another coroutine was pending
C15_Witness ==
    /\ status = "running"
    /\ last.stmt = AwaitExpr(CallExpr(IdentifierExpr("f"), <<>>))
    /\ last.v = Value(1, "Int")
    /\ coroutines # <<>>

\* C15 (as stated): the pending queue and the pending coroutines are the
\* same before and after any await of a call of an async function.
C15_AwaitLeavesQueue ==
    [][\A fn \in {1, 2, 3, 6} :
          (IsAwaitOf(fn) /\ status' = "running") =>
              (coroutines' = coroutines /\ coroobjs' = coroobjs)]_vars

----------------------------------------------------------------------------
(* Programs that fail in a function body, a trigger body and a coroutine   *)

\* `function boom() => { new Foo()! print("after")! }`, the async aboom
\* with the same body, `boom()!`, `aboom()!` and
\* `when (x = ...) { new Foo()! print("after")! }`; no class Foo is defined
FailingStmt ==
    \E e \in {FunctionExpr(8), FunctionExpr(9),
              CallExpr(IdentifierExpr("boom"), <<>>),
              CallExpr(IdentifierExpr("aboom"), <<>>),
              WhenExpr(6)} :
        /\ status = "running"
        /\ Step(e)

NextFatal == DeclareWatched \/ AssignWatched \/ FailingStmt \/ NewlineStmt

SpecFatal == Init /\ [][NextFatal]_vars

\* C16: once a statement has raised a fatal error, the loop of main
\* evaluates no further statement (and so no coroutine step), and the
\* statements that follow the failing one in the function body, the trigger
\* body or the coroutine body are not evaluated: their `print("after")!`
\* never writes its line.
C16_FatalErrorStopsEvaluation ==
    [][/\ status # "error"
       /\ \A j \in 1..Len(stdout') : stdout'[j] # <<"after">>]_vars

\* An assignment has failed inside its trigger body while a coroutine was
\* pending
C16_Witness ==
    /\ status = "error"
    /\ message = "Cannot instantiate non-existent class"
    /\ last.stmt.k = "BinaryOpExpr"
    /\ coroutines # <<>>
    /\ stdout = <<>>

----------------------------------------------------------------------------
(* The drain of the pending queue at a file boundary                       *)

\* The statement of the step is the file boundary of the program
IsDrain ==
    /\ status = "running"
    /\ last'.stmt.k = "NewFileExpr"

\* The coroutine's remaining body runs out without a return statement
Exhausts(c) == \A j \in 1..Len(c.body) : c.body[j].k # "ReturnExpr"

\* The body calls, before its return, the async function of that name
CallsAsync(body, name) ==
    \E j \in 1..Len(UpToReturn(body)) :
        /\ UpToReturn(body)[j] = CallExpr(IdentifierExpr(name), <<>>)
        /\ get_function(St, scope, name) # 0
        /\ FunctionDefs[get_function(St, scope, name)].is_async

\* The coroutine creates, before its return, a coroutine of an async
\* function that creates a coroutine of itself
Respawns(c) ==
    \E fn \in 1..Len(FunctionDefs) :
        /\ CallsAsync(c.body, FunctionDefs[fn].name)
        /\ get_function(St, scope, FunctionDefs[fn].name) = fn
        /\ CallsAsync(FunctionDefs[fn].body, FunctionDefs[fn].name)

\* C20 (as amended): the drain at a file boundary returns only with an
\* empty queue; it does not return when some pending coroutine's body runs
\* out without a return (the loop spins, unless a fatal error ends the
\* run); and it does not spin when every pending coroutine has a return in
\* its remaining body and none of them creates coroutines without end.
C20_DrainTermination ==
    [][IsDrain =>
          /\ (status' = "running" => coroutines' = <<>>)
          /\ ((\E n \in 1..Len(PendingBefore) : Exhausts(PendingBefore[n]))
                 => status' \in {"hang", "error"})
          /\ ((\A n \in 1..Len(PendingBefore) :
                  ~Exhausts(PendingBefore[n]) /\ ~Respawns(PendingBefore[n]))
                 => status' # "hang")]_vars

\* C20 witness: a file boundary reached with a coroutine pending whose body
\* has no return: the body is used up, the coroutine is still queued and
\* the loop spins
C20_Witness ==
    /\ status = "hang"
    /\ last.stmt = NewFileExpr("")
    /\ \E n \in 1..Len(coroutines) :
          /\ coroobjs[coroutines[n]].body = <<>>
          /\ coroobjs[coroutines[n]].result = None

\* C20 (as stated): the drain terminates when every pending coroutine has
\* a return statement in its remaining body.
C20_TerminatesWhenAllReturn ==
    [][IsDrain /\ (\A n \in 1..Len(PendingBefore) : ~Exhausts(PendingBefore[n]))
          => status' # "hang"]_vars

----------------------------------------------------------------------------
(* Declarations ended by the inverse terminator                            *)

\* C21 (as stated): a declaration recorded with boldness -1 replaces an
\* existing binding of the same name whatever that binding's boldness is:
\* after it the name is bound as the declaration says.
C21_InverseTerminatorOverrides ==
    [][(IsRedeclaration /\ last'.stmt.boldness = -1) => DeclaredAsStated]_vars

----------------------------------------------------------------------------
(* Division of signed integers                                             *)

\* `var var x = 0 + n!`, `var var x = 0 - n!`: a signed integer
DeclareSigned ==
    \E name \in {"x", "y"}, n \in 0..MaxInt, op \in {"Plus", "Minus"} :
        /\ status = "running"
        /\ Step(VariableExpr(name, BinaryOpExpr(IntegerExpr(0), IntegerExpr(n), op),
                             VarVar, 1))

NextDiv == DeclareSigned \/ ArithStmt

SpecDiv == Init /\ [][NextDiv]_vars

Abs(n) == IF n < 0 THEN 0 - n ELSE n

\* the quotient truncated toward zero
TruncDiv(a, b) ==
    IF (a < 0) = (b < 0) THEN Abs(a) \div Abs(b) ELSE 0 - (Abs(a) \div Abs(b))

\* C22 (as stated): the quotient of two integers with a non-zero divisor is
\* truncated toward zero, whatever the signs.
C22_DivisionTruncatesTowardZero ==
    [][(/\ IsBinary("Div")
        /\ LeftOperand.type = "Int"
        /\ RightOperand.type = "Int"
        /\ RightOperand.i # 0)
          => /\ status' = "running"
             /\ last'.v.type = "Int"
             /\ last'.v.i = TruncDiv(LeftOperand.i, RightOperand.i)]_vars

----------------------------------------------------------------------------
(* Class definitions and the defining scope                                 *)

\* The step evaluated a class definition and the run goes on
IsClassDefinition ==
    /\ status = "running"
    /\ last'.stmt.k = "ClassExpr"
    /\ status' = "running"

\* C23: evaluating a class definition leaves the names of the defining
\* scope's variable map and function map as they were; only its class map
\* gains the class name, so no member name becomes resolvable as a bare
\* identifier in the defining scope.
C23_ClassDefinitionKeepsDefiningScope ==
    [][IsClassDefinition =>
          /\ scope' = scope
          /\ DOMAIN scopes'[scope'].variables = DOMAIN scopes[scope].variables
          /\ DOMAIN scopes'[scope'].functions = DOMAIN scopes[scope].functions
          /\ DOMAIN scopes'[scope'].classes =
                 DOMAIN scopes[scope].classes \cup {ClassDefs[last'.stmt.cl].name}]_vars

----------------------------------------------------------------------------
(* The parser (ast/parser.py) over the tokens of the lexer (tokens.py)      *)

\* A Token: its type and its text (the span is left out)
Token(type, value) == [type |-> type, value |-> value]

EOF == Token("EOF", "")

EQ_TYPE_DEPTH == {"Eq", "TripleEq", "QuadEq", "QuintEq"}

PARSER_EQ_TYPES == {"Assign"} \cup EQ_TYPE_DEPTH

BINARY_OPS ==
    {"Plus", "Minus", "Mul", "Div", "Assign", "Eq", "TripleEq", "QuadEq",
     "NAssign", "NEq", "NTripleEq", "NQuadEq"}

UNARY_OPS == {"SemiColon", "Minus"}

\* The token types of the keywords
KEYWORDS_TO_STR ==
    {"Function", "Const", "Var", "When", "If", "Class", "New", "Delete", "Async",
     "Await", "Noop", "Return", "Previous", "Assert", "Export", "To", "Import",
     "Reverse"}

\* int() of the text of an Int token
int(text) ==
    CASE text = "0" -> 0 [] text = "1" -> 1 [] text = "2" -> 2 [] text = "3" -> 3
      [] text = "4" -> 4 [] text = "5" -> 5 [] text = "6" -> 6 [] text = "7" -> 7
      [] text = "8" -> 8 [] text = "9" -> 9

\* The Parser object as its methods see it
Ps ==
    [tokens |-> tokens, index |-> index, deleted |-> deleted, id |-> parser_id,
     status |-> status, message |-> message]

\* Parser.current
current(P) == IF P.index \in 1..Len(P.tokens) THEN P.tokens[P.index] ELSE EOF

\* `self.current in BINARY_OPS` (parser.py:380): the membership test
\* compares the Token, a tuple, with token types, which are ints
token_in(token, types) == FALSE

\* Parser.next
RECURSIVE next(_, _)
next(P, ignore_whitespace) ==
    IF P.index + 1 \in 1..Len(P.tokens)
          /\ ignore_whitespace /\ P.tokens[P.index + 1].type = "Whitespace"
    THEN next([P EXCEPT !.index = @ + 1], TRUE)
    ELSE [P EXCEPT !.index = @ + 1]

\* Parser.expect: the token, or the fatal error `Expected ...`
expect(P, type, msg, ignore_whitespace) ==
    IF current(P).type # type THEN error(P, msg)
    ELSE R(next(P, ignore_whitespace), current(P))

\* Parser.expect_boldness: the number of `!` consumed
RECURSIVE expect_boldness(_)
expect_boldness(P) ==
    IF current(P).type # "Not" THEN R(P, 0)
    ELSE LET more(r) == R(r.s, r.v + 1) IN more(expect_boldness(next(P, FALSE)))

\* boldness = self.expect_boldness(); if boldness < 1: error(..., 'Expected !')
expect_bold(P) ==
    LET bold(r) == IF r.v < 1 THEN error(r.s, "Expected !") ELSE r
    IN  bold(expect_boldness(P))

\* while self.current.type is TokenType.Whitespace: self.next()
RECURSIVE skip_whitespace(_)
skip_whitespace(P) ==
    IF current(P).type = "Whitespace" THEN skip_whitespace(next(P, FALSE)) ELSE P

\* while self.current.type in types: self.next(True)
RECURSIVE skip_tokens(_, _)
skip_tokens(P, types) ==
    IF current(P).type \in types THEN skip_tokens(next(P, TRUE), types) ELSE P

\* A function, `when` or class node is named by its place in the table
\* that holds its fields; 0 when the table has no such definition
intern(defs, fields) ==
    IF \E n \in 1..Len(defs) : defs[n] = fields
    THEN CHOOSE n \in 1..Len(defs) : defs[n] = fields
    ELSE 0

RECURSIVE expr(_, _)
RECURSIVE binary(_, _)
RECURSIVE unary(_)
RECURSIVE primary(_)
RECURSIVE arguments(_, _)
RECURSIVE statement(_)
RECURSIVE block(_, _, _)
RECURSIVE parse_function_definition(_, _, _)

\* the argument loop of a call or a `new`, up to the closing parenthesis
arguments(P, args) ==
    IF current(P).type = "RParen" THEN R(P, args)
    ELSE
      LET separated(r) ==
              IF r.s.status # "running" THEN r
              ELSE IF current(r.s).type = "RParen" THEN R(r.s, Append(args, r.v))
              ELSE LET more(c) == IF c.s.status # "running" THEN c
                                  ELSE arguments(c.s, Append(args, r.v))
                   IN  more(expect(r.s, "Comma", "Expected ,", TRUE))
      IN  separated(expr(P, FALSE))

\* Parser.primary.  The sources hold no Float, bracket, brace-literal or
\* dot token: the array, dict, index and attribute branches are never taken.
primary(P) ==
    LET token == current(P)
        suffix(r) ==
            IF r.s.status # "running" THEN r
            ELSE IF current(r.s).type = "LParen"
            THEN LET called(a) == IF a.s.status # "running" THEN a
                                  ELSE R(next(a.s, TRUE), CallExpr(r.v, a.v))
                 IN  called(arguments(next(r.s, TRUE), <<>>))
            ELSE r
        closed(r) ==
            IF r.s.status # "running" THEN r
            ELSE LET inner(c) == IF c.s.status # "running" THEN c ELSE R(c.s, r.v)
                 IN  inner(expect(r.s, "RParen", "Expected )", TRUE))
        previous(r) == IF r.s.status # "running" THEN r ELSE R(r.s, PreviousExpr(r.v))
        instance(n) ==
            IF n.s.status # "running" THEN n
            ELSE LET opened(o) ==
                         IF o.s.status # "running" THEN o
                         ELSE LET made(a) == IF a.s.status # "running" THEN a
                                             ELSE R(next(a.s, TRUE), NewExpr(n.v.value))
                              IN  made(arguments(o.s, <<>>))
                 IN  opened(expect(n.s, "LParen", "Expected (", TRUE))
    IN  CASE token.type = "Int" ->
                 suffix(R(next(P, FALSE), IntegerExpr(int(token.value))))
          [] token.type = "String" -> R(next(P, FALSE), StringExpr(token.value))
          [] token.type = "Ident" ->
                 suffix(R(next(P, FALSE), IdentifierExpr(token.value)))
          [] token.type = "LParen" -> suffix(closed(expr(next(P, TRUE), FALSE)))
          [] token.type = "Previous" -> suffix(previous(expr(next(P, TRUE), FALSE)))
          [] token.type = "New" ->
                 suffix(instance(expect(next(P, TRUE), "Ident", "Expected identifier", TRUE)))
          [] token.type = "Function" ->
                 suffix(parse_function_definition(
                            [P EXCEPT !.id = @ + 1], FALSE,
                            "__anon_func_" \o ToString(P.id)))
          [] OTHER -> raise(P, "Exception")

\* Parser.unary
unary(P) ==
    IF current(P).type \notin UNARY_OPS THEN primary(P)
    ELSE LET negated(r) == IF r.s.status # "running" THEN r
                           ELSE R(r.s, UnaryOpExpr(r.v, current(P).type))
         IN  negated(primary(next(P, FALSE)))

\* Parser.binary
binary(P, lhs) ==
    LET is_whitespace_before == current(P).type = "Whitespace"
        P1 == IF is_whitespace_before THEN next(P, FALSE) ELSE P
        op == current(P1).type
        P2 == next(P1, FALSE)
        is_whitespace_after == current(P2).type = "Whitespace"
        P3 == IF is_whitespace_after THEN next(P2, FALSE) ELSE P2
        swapped(r) == IF r.s.status # "running" THEN r
                      ELSE binary(r.s, BinaryOpExpr(r.v, lhs, op))
        operand(r) ==
            IF r.s.status # "running" THEN r
            ELSE IF is_whitespace_before /\ is_whitespace_after
                       /\ token_in(current(r.s), BINARY_OPS)
            THEN swapped(binary(r.s, r.v))
            ELSE binary(r.s, BinaryOpExpr(lhs, r.v, op))
    IN  IF op \notin BINARY_OPS THEN R(P1, lhs) ELSE operand(unary(P3))

\* Parser.expr.  The boldness of an expression statement is an annotation
\* no handler reads; the node does not carry it.
expr(P, be_bold) ==
    LET bold(r) ==
            IF r.s.status # "running" \/ ~be_bold THEN r
            ELSE LET marked(b) == IF b.s.status # "running" THEN b ELSE R(b.s, r.v)
                 IN  marked(expect_bold(r.s))
        operators(r) == IF r.s.status # "running" THEN r ELSE bold(binary(r.s, r.v))
    IN  operators(unary(P))

\* the parameter loop of Parser.parse_function_definition (no type
\* annotation in the sources)
RECURSIVE parameters(_, _)
parameters(P, args) ==
    IF current(P).type = "RParen" THEN R(P, args)
    ELSE
      LET separated(r) ==
              IF r.s.status # "running" THEN r
              ELSE IF current(r.s).type = "RParen" THEN R(r.s, Append(args, r.v.value))
              ELSE LET more(c) == IF c.s.status # "running" THEN c
                                  ELSE parameters(c.s, Append(args, r.v.value))
                   IN  more(expect(r.s, "Comma", "Expected ,", TRUE))
      IN  separated(expect(P, "Ident", "Expected identifier", TRUE))

\* the statement loop of a function, `when` or class body, up to the
\* closing brace; a class body admits var, const, class and function only
block(P, body, is_class) ==
    IF current(P).type = "RBrace" THEN R(P, body)
    ELSE IF is_class /\ current(P).type \notin {"Var", "Const", "Class", "Function"}
    THEN error(P, "Expected var, const, class or function")
    ELSE
      LET appended(r) ==
              IF r.s.status # "running" THEN r
              ELSE IF current(r.s).type = "RBrace" THEN R(r.s, Append(body, r.v))
              ELSE block(skip_whitespace(r.s), Append(body, r.v), is_class)
      IN  appended(statement(P))

\* Parser.parse_function_definition; name is "" when the definition
\* carries its own name
parse_function_definition(P, is_async, name) ==
    LET P1 == next(P, TRUE)
        named == IF name # "" THEN R(P1, Token("Ident", name))
                 ELSE IF current(P1).type = "Int" THEN R(next(P1, TRUE), current(P1))
                 ELSE expect(P1, "Ident", "Expected identifier", TRUE)
        defined(n, a, single, P2, body) ==
            R(P2, FunctionExpr(intern(FunctionDefs,
                     [name |-> n.v.value, args |-> a.v, is_single_expr |-> single,
                      is_async |-> (IF single THEN FALSE ELSE is_async),
                      body |-> body])))
        bare(n, a, r) == IF r.s.status # "running" THEN r
                         ELSE defined(n, a, TRUE, r.s, <<r.v>>)
        braced(n, a, r) == IF r.s.status # "running" THEN r
                           ELSE defined(n, a, FALSE, next(r.s, FALSE), r.v)
        opened(n, a, o) == IF o.s.status # "running" THEN o
                           ELSE braced(n, a, block(o.s, <<>>, FALSE))
        arrow(n, a, g) ==
            IF g.s.status # "running" THEN g
            ELSE IF current(g.s).type # "LBrace" THEN bare(n, a, expr(g.s, TRUE))
            ELSE opened(n, a, expect(g.s, "LBrace", "Expected {", TRUE))
        assigned(n, a, e) == IF e.s.status # "running" THEN e
                             ELSE arrow(n, a, expect(e.s, "Gt", "Expected >", TRUE))
        listed(n, a) == IF a.s.status # "running" THEN a
                        ELSE assigned(n, a, expect(next(a.s, TRUE), "Assign", "Expected =", TRUE))
        parenthesis(n, o) == IF o.s.status # "running" THEN o
                             ELSE listed(n, parameters(o.s, <<>>))
        after_name(n) == IF n.s.status # "running" THEN n
                         ELSE parenthesis(n, expect(n.s, "LParen", "Expected (", TRUE))
    IN  after_name(named)

\* Parser.parse_variable_definition (no type annotation in the sources)
parse_variable_definition(P) ==
    LET first == current(P).type
        P1 == next(P, TRUE)
        second == current(P1).type
        pair == CASE first = "Var" /\ second = "Var" -> VarVar
                  [] first = "Const" /\ second = "Var" -> ConstVar
                  [] first = "Var" /\ second = "Const" -> VarConst
                  [] first = "Const" /\ second = "Const" -> ConstConst
                  [] OTHER -> -1
        P2 == next(P1, TRUE)
        is_triple == current(P2).type = "Const" /\ pair = ConstConst
        type == IF is_triple THEN ConstConstConst ELSE pair
        P3 == IF is_triple THEN next(P2, TRUE) ELSE P2
        named == IF current(P3).type = "Int" THEN R(next(P3, TRUE), current(P3))
                 ELSE expect(P3, "Ident", "Expected identifier", TRUE)
        terminated(n, v, b) ==
            IF b.s.status # "running" THEN b
            ELSE R(b.s, VariableExpr(n.v.value, v.v, type, b.v))
        valued(n, v) ==
            IF v.s.status # "running" THEN v
            ELSE IF current(v.s).type = "InverseNot"
            THEN R(skip_tokens(v.s, {"InverseNot"}), VariableExpr(n.v.value, v.v, type, -1))
            ELSE terminated(n, v, expect_bold(v.s))
        assigned(n, a) == IF a.s.status # "running" THEN a
                          ELSE valued(n, expr(a.s, FALSE))
        after_name(n) == IF n.s.status # "running" THEN n
                         ELSE assigned(n, expect(n.s, "Assign", "Expected =", TRUE))
    IN  IF pair = -1 THEN error(P1, "Expected var or const") ELSE after_name(named)

\* The dummy node of `delete <keyword>!`: a bare ASTExpr, for which the
\* Interpreter has no visit method
ASTExpr == [k |-> "ASTExpr"]

\* Parser.statement (no `assert` in the sources)
statement(P) ==
    LET token == current(P)
        P1 == next(P, TRUE)
        bold(r, node) == IF r.s.status # "running" THEN r ELSE R(r.s, node)
        \* delete of a literal, or of a keyword kind
        deletion(r) == IF r.s.status # "running" THEN r
                       ELSE bold(expect_bold(r.s), DeleteExpr(r.v))
        \* a file boundary, with or without a file name
        named(P2) ==
            IF current(P2).type # "Ident" THEN R(P2, "")
            ELSE IF current(next(P2, FALSE)).type # "Dot"
            THEN R(next(P2, FALSE), current(P2).value)
            ELSE LET suffixed(r) == IF r.s.status # "running" THEN r
                                    ELSE R(r.s, current(P2).value \o "." \o r.v.value)
                 IN  suffixed(expect(next(next(P2, FALSE), FALSE), "Ident",
                                     "Expected identifier", TRUE))
        boundary(r) == IF r.s.status # "running" THEN r
                       ELSE R(skip_tokens(r.s, PARSER_EQ_TYPES), NewFileExpr(r.v))
        \* export <symbol> to "<file>"!
        exported(s, f) == IF f.s.status # "running" THEN f
                          ELSE bold(expect_bold(f.s), ExportExpr(s.v.value, f.v.value))
        destination(s, t) == IF t.s.status # "running" THEN t
                             ELSE exported(s, expect(t.s, "String", "Expected string", TRUE))
        export(s) == IF s.s.status # "running" THEN s
                     ELSE destination(s, expect(s.s, "To", "Expected to", TRUE))
        import(s) == IF s.s.status # "running" THEN s
                     ELSE bold(expect_bold(s.s), ImportExpr(s.v.value))
        \* when (<condition>) { <body> }
        triggered(c, b) ==
            IF b.s.status # "running" THEN b
            ELSE R(next(b.s, TRUE),
                   WhenExpr(intern(WhenDefs, [lhs |-> c.v.lhs, body |-> b.v])))
        when_body(c, o) == IF o.s.status # "running" THEN o
                           ELSE triggered(c, block(o.s, <<>>, FALSE))
        when_closed(c, p) ==
            IF p.s.status # "running" THEN p
            ELSE IF c.v.k # "BinaryOpExpr" THEN error(p.s, "Expected binary operator")
            ELSE when_body(c, expect(p.s, "LBrace", "Expected {", TRUE))
        condition(c) == IF c.s.status # "running" THEN c
                        ELSE when_closed(c, expect(c.s, "RParen", "Expected )", TRUE))
        when(o) == IF o.s.status # "running" THEN o ELSE condition(expr(o.s, FALSE))
        \* class <name> { <members> }
        members(n, b) ==
            IF b.s.status # "running" THEN b
            ELSE R(next(b.s, TRUE),
                   ClassExpr(intern(ClassDefs, [name |-> n.v.value, body |-> b.v])))
        class_body(n, o) == IF o.s.status # "running" THEN o
                            ELSE members(n, block(o.s, <<>>, TRUE))
        class(n) == IF n.s.status # "running" THEN n
                    ELSE class_body(n, expect(n.s, "LBrace", "Expected {", TRUE))
        return(r) == IF r.s.status # "running" THEN r ELSE R(r.s, ReturnExpr(r.v))
        await(r) == IF r.s.status # "running" THEN r ELSE R(r.s, AwaitExpr(r.v))
    IN  IF token.type \in P.deleted THEN error(P, token.value \o " has been delete")
        ELSE
          CASE token.type = "Delete" ->
                   IF current(P1).type \in {"Int", "String", "Bool"}
                   THEN deletion(primary(P1))
                   ELSE IF current(P1).type \in KEYWORDS_TO_STR
                   THEN bold(expect_bold(next([P1 EXCEPT !.deleted =
                                                   @ \cup {current(P1).type}], TRUE)),
                             ASTExpr)
                   ELSE error(P1, "Expected int, string, bool or keyword")
            [] token.type \in {"Var", "Const"} -> parse_variable_definition(P)
            [] token.type = "QuintEq" -> boundary(named(skip_tokens(P, PARSER_EQ_TYPES)))
            [] token.type = "Export" ->
                   export(expect(P1, "Ident", "Expected identifier", TRUE))
            [] token.type = "Import" ->
                   import(expect(P1, "Ident", "Expected identifier", TRUE))
            [] token.type = "When" -> when(expect(P1, "LParen", "Expected (", TRUE))
            [] token.type = "Function" -> parse_function_definition(P, FALSE, "")
            [] token.type = "Return" -> return(expr(P1, TRUE))
            [] token.type = "Reverse" -> bold(expect_bold(P1), ReverseExpr(P.index))
            [] token.type = "Async" ->
                   IF current(P1).type # "Function" THEN error(P1, "Expected function")
                   ELSE parse_function_definition(P1, TRUE, "")
            [] token.type = "Await" -> await(expr(P1, TRUE))
            [] token.type = "Noop" -> bold(expect_bold(P1), StringExpr("noop"))
            [] token.type = "Class" ->
                   class(expect(P1, "Ident", "Expected identifier", TRUE))
            [] OTHER -> expr(P, TRUE)

\* One turn of the loop of Parser.parse: the parser after it and the
\* nodes it appends to the statements
parse(P) ==
    LET marked(r) ==
            IF r.s.status # "running" THEN R(r.s, <<>>)
            ELSE IF current(r.s).type = "Whitespace" /\ current(r.s).value = "\n"
            THEN R(skip_whitespace(r.s), <<r.v, NewlineExpr>>)
            ELSE R(skip_whitespace(r.s), <<r.v>>)
    IN  IF current(P).type = "Whitespace" THEN R(next(P, FALSE), <<>>)
        ELSE marked(statement(P))

----------------------------------------------------------------------------
(* Source files: token lists as Lexer.lex yields them for the stripped text *)

sp == Token("Whitespace", " ")

nl == Token("Whitespace", "\n")

Ident(name) == Token("Ident", name)

Number(text) == Token("Int", text)

Punct(type) == Token(type, "")

Keyword(type, text) == Token(type, text)

\* `var var x = 1!`, `var var x = 2¡`, `const var y = 1!`,
\* `when (x = 1) {` / `y = 2!` / `}`, `class Foo {` / `var var a = 1!` / `}`,
\* `async function f() => {` / `return 1!` / `}`, `delete var!`,
\* `print(1 - 2 * 3)!`, `print(1-2*3)!`, `=====`, `print(x)!` and
\* `var var g = function() => {` / `return 1!` / `}!`
AnonymousLine ==
    <<Keyword("Var", "var"), sp, Keyword("Var", "var"), sp, Ident("g"), sp,
      Punct("Assign"), sp, Keyword("Function", "function"), Punct("LParen"),
      Punct("RParen"), sp, Punct("Assign"), Punct("Gt"), sp, Punct("LBrace"), nl,
      sp, Keyword("Return", "return"), sp, Number("1"), Punct("Not"), nl,
      Punct("RBrace"), Punct("Not")>>

SourceLines ==
    { <<Keyword("Var", "var"), sp, Keyword("Var", "var"), sp, Ident("x"), sp,
        Punct("Assign"), sp, Number("1"), Punct("Not")>>,
      <<Keyword("Var", "var"), sp, Keyword("Var", "var"), sp, Ident("x"), sp,
        Punct("Assign"), sp, Number("2"), Punct("InverseNot")>>,
      <<Keyword("Const", "const"), sp, Keyword("Var", "var"), sp, Ident("y"), sp,
        Punct("Assign"), sp, Number("1"), Punct("Not")>>,
      <<Keyword("When", "when"), sp, Punct("LParen"), Ident("x"), sp, Punct("Assign"),
        sp, Number("1"), Punct("RParen"), sp, Punct("LBrace"), nl,
        sp, Ident("y"), sp, Punct("Assign"), sp, Number("2"), Punct("Not"), nl,
        Punct("RBrace")>>,
      <<Keyword("Class", "class"), sp, Ident("Foo"), sp, Punct("LBrace"), nl,
        sp, Keyword("Var", "var"), sp, Keyword("Var", "var"), sp, Ident("a"), sp,
        Punct("Assign"), sp, Number("1"), Punct("Not"), nl,
        Punct("RBrace")>>,
      <<Keyword("Async", "async"), sp, Keyword("Function", "function"), sp, Ident("f"),
        Punct("LParen"), Punct("RParen"), sp, Punct("Assign"), Punct("Gt"), sp,
        Punct("LBrace"), nl,
        sp, Keyword("Return", "return"), sp, Number("1"), Punct("Not"), nl,
        Punct("RBrace")>>,
      <<Keyword("Delete", "delete"), sp, Keyword("Var", "var"), Punct("Not")>>,
      <<Ident("print"), Punct("LParen"), Number("1"), sp, Punct("Minus"), sp, Number("2"),
        sp, Punct("Mul"), sp, Number("3"), Punct("RParen"), Punct("Not")>>,
      <<Ident("print"), Punct("LParen"), Number("1"), Punct("Minus"), Number("2"),
        Punct("Mul"), Number("3"), Punct("RParen"), Punct("Not")>>,
      <<Punct("QuintEq")>>,
      <<Ident("print"), Punct("LParen"), Ident("x"), Punct("RParen"), Punct("Not")>>,
      AnonymousLine }

\* the lines of a file, a newline between two of them
RECURSIVE JoinLines(_)
JoinLines(lines) ==
    IF Len(lines) = 1 THEN lines[1]
    ELSE lines[1] \o <<nl>> \o JoinLines(Tail(lines))

\* Files of up to MaxLines of these lines, with at most one anonymous function
Sources ==
    { JoinLines(lines) :
        lines \in { ls \in UNION { [1..n -> SourceLines] : n \in 1..MaxLines } :
                      Cardinality({n \in DOMAIN ls : ls[n] = AnonymousLine}) <= 1 } }

\* Lexer, Parser.__init__ (which makes the first token current) and
\* Interpreter.__init__
InitParse ==
    /\ tokens \in Sources
    /\ index = 1
    /\ deleted = {}
    /\ parser_id = 0
    /\ ast = <<>>
    /\ pc = 0
    /\ stdout = <<>>
    /\ scopes = <<Scope(0)>>
    /\ scope = 1
    /\ bindings = <<>>
    /\ classobjs = <<>>
    /\ coroobjs = <<>>
    /\ arrayobjs = <<>>
    /\ special_values = [name \in SPECIAL_NAMES |-> SPECIAL_VALUES(name)]
    /\ coroutines = <<>>
    /\ deleted_values = <<>>
    /\ filename = "main.db"
    /\ files = EmptyMap
    /\ exports = EmptyMap
    /\ status = "running"
    /\ message = ""
    /\ last = [stmt |-> [k |-> "Start"], v |-> undefined]
    /\ since_call = [stmt |-> [k |-> "Start"], newlines |-> 0]

\* One turn of the loop of Parser.parse
ParseStatement ==
    /\ status = "running"
    /\ pc = 0
    /\ index \in 1..Len(tokens)
    /\ \E r \in {parse(Ps)} :
          /\ index' = r.s.index
          /\ deleted' = r.s.deleted
          /\ parser_id' = r.s.id
          /\ status' = r.s.status
          /\ message' = r.s.message
          /\ ast' = ast \o r.v
    /\ last' = [stmt |-> [k |-> "Parse"], v |-> undefined]
    /\ UNCHANGED <<tokens, pc, stdout, scopes, scope, bindings, classobjs, coroobjs,
                   arrayobjs, special_values, coroutines, deleted_values, filename, files, exports, since_call>>

\* Parser.parse returns at the end of the tokens and the loop of main
\* begins (__main__.py:18-22)
StartRun ==
    /\ status = "running"
    /\ pc = 0
    /\ tokens # <<>>
    /\ index > Len(tokens)
    /\ pc' = 1
    /\ last' = [stmt |-> [k |-> "Run"], v |-> undefined]
    /\ UNCHANGED <<tokens, index, deleted, parser_id, ast, stdout, scopes, scope,
                   bindings, classobjs, coroobjs, arrayobjs, special_values, coroutines,
                   deleted_values, filename, files, exports, status, message, since_call>>

NextParse == ParseStatement \/ StartRun \/ RunStmt \/ ProgramEnd

SpecParse == InitParse /\ [][NextParse]_vars

----------------------------------------------------------------------------
(* The statements of a source file and the nodes the parser yields          *)

\* The turn of the parse loop parsed a top-level statement
IsParsedStatement ==
    /\ status = "running"
    /\ last'.stmt.k = "Parse"
    /\ current(Ps).type # "Whitespace"
    /\ status' = "running"

TypeAt(n) == IF n \in 1..Len(tokens) THEN tokens[n].type ELSE "EOF"

\* the braces opened and not closed in tokens m..n
BraceDepth(m, n) ==
    Cardinality({j \in m..n : TypeAt(j) = "LBrace"})
        - Cardinality({j \in m..n : TypeAt(j) = "RBrace"})

\* The place of the last token of the statement that begins at token m:
\* the end of the first run of terminators, a closing brace or a file
\* boundary outside every brace
StatementEnd(m) ==
    CHOOSE n \in m..Len(tokens) :
        /\ BraceDepth(m, n) = 0
        /\ TypeAt(n) \in {"Not", "InverseNot", "RBrace", "QuintEq"}
        /\ TypeAt(n + 1) \notin {"Not", "InverseNot"}
        /\ \A j \in m..(n - 1) :
              ~ /\ BraceDepth(m, j) = 0
                /\ TypeAt(j) \in {"Not", "InverseNot", "RBrace", "QuintEq"}
                /\ TypeAt(j + 1) \notin {"Not", "InverseNot"}

\* the token right after it is a newline
IsFollowedByNewline(m) ==
    /\ StatementEnd(m) + 1 \in 1..Len(tokens)
    /\ tokens[StatementEnd(m) + 1] = nl

\* C24: the parser appends a newline marker right after a top-level
\* statement exactly when the token that directly follows the statement
\* is a newline, whatever the kind of the statement.
C24_MarkerAfterEveryStatementBeforeNewline ==
    [][IsParsedStatement =>
          ast' = SubSeq(ast', 1, Len(ast) + 1)
                   \o (IF IsFollowedByNewline(index) THEN <<NewlineExpr>> ELSE <<>>)]_vars

\* A `delete <keyword>!` at token n, and the keyword kind it deletes
IsKeywordDeletion(n) ==
    /\ TypeAt(n) = "Delete"
    /\ TypeAt(n + 1) = "Whitespace"
    /\ TypeAt(n + 2) \in KEYWORDS_TO_STR
    /\ TypeAt(n + 3) = "Not"

\* C25: once `delete <keyword>!` is parsed, the parser never gets past a
\* later token of that keyword kind, wherever it stands, and no statement
\* is evaluated.
C25_DeletedKeywordIsParseError ==
    \A n \in 1..Len(tokens) : \A m \in 1..Len(tokens) :
        (/\ IsKeywordDeletion(n)
         /\ TypeAt(n + 2) \in deleted
         /\ m > n + 3
         /\ TypeAt(m) = TypeAt(n + 2))
            => (index <= m /\ pc = 0)

\* Tokens c.. are `a op1 b op2 c` with whitespace on both sides of op1
IsSpacedChain(c) ==
    /\ TypeAt(c) \in {"Int", "Ident"}
    /\ TypeAt(c + 1) = "Whitespace"
    /\ TypeAt(c + 2) \in BINARY_OPS
    /\ TypeAt(c + 3) = "Whitespace"
    /\ TypeAt(c + 4) \in {"Int", "Ident"}
    /\ TypeAt(c + 5) = "Whitespace"
    /\ TypeAt(c + 6) \in BINARY_OPS
    /\ TypeAt(c + 7) = "Whitespace"
    /\ TypeAt(c + 8) \in {"Int", "Ident"}

\* the node of an operand token
Operand(token) ==
    IF token.type = "Int" THEN IntegerExpr(int(token.value))
    ELSE IdentifierExpr(token.value)

\* the chain with the right subtree as the left operand of op1
SwappedChain(c) ==
    BinaryOpExpr(BinaryOpExpr(Operand(tokens[c + 4]), Operand(tokens[c + 8]),
                              tokens[c + 6].type),
                 Operand(tokens[c]), tokens[c + 2].type)

\* the node is the expression, or a call with it as the only argument
Holds(node, expression) ==
    \/ node = expression
    \/ /\ node.k = "CallExpr"
       /\ node.args = <<expression>>

\* C26: of a chain `a op1 b op2 c` with whitespace on both sides of op1
\* the parser makes op1 applied to (b op2 c) as left operand and a as
\* right operand.
C26_SpacedChainSwapsOperands ==
    [][IsParsedStatement =>
          \A c \in index..(index' - 1) :
              IsSpacedChain(c) => Holds(ast'[Len(ast) + 1], SwappedChain(c))]_vars

----------------------------------------------------------------------------
(* The loop of main after a reverse                                         *)

\* The loop of main is past the only `reverse` of the program
IsPastOnlyReverse ==
    /\ status = "running"
    /\ ReverseCount = 1
    /\ \E j \in 1..Len(ast) : j < pc /\ ast[j].k = "ReverseExpr"

\* C27: in a program with exactly one `reverse`, the replay is all that
\* is evaluated once the reverse is reached: the loop of main does not go
\* on with the statements that follow the reverse, so that no top-level
\* statement is evaluated twice after it.
C27_ReverseIsFullRestart ==
    [][IsPastOnlyReverse => last'.stmt.k = "End"]_vars

----------------------------------------------------------------------------
(* Constant bindings declared from un-awaited calls                        *)

\* `const var x = f()!`, `const const x = f()!` and
\* `const const const x = f()!`, without await
DeclareConstCall ==
    \E callee \in {"f", "nf"}, type \in {ConstVar, ConstConst, ConstConstConst} :
        /\ status = "running"
        /\ Step(VariableExpr("x", CallExpr(IdentifierExpr(callee), <<>>), type, 1))

NextConst == DefineAsync \/ DeclareConstCall \/ AssignStmt \/ NewlineStmt

SpecConst == Init /\ [][NextConst]_vars

\* The binding of x in reach of the current scope is tagged ConstVar,
\* ConstConst or ConstConstConst, and the step is not a declaration of x
IsStepOverConst ==
    /\ status = "running"
    /\ get_variable(St, scope, "x") # 0
    /\ bindings[get_variable(St, scope, "x")].type \in {ConstVar, ConstConst, ConstConstConst}
    /\ last'.stmt.k # "VariableExpr"

\* C28: the current value of a binding tagged ConstVar, ConstConst or
\* ConstConstConst is the same after every step that follows its
\* declaration, the step that completes the coroutine whose un-awaited call
\* was the declaration's initial value included.
C28_ConstValueNeverChanges ==
    [][IsStepOverConst
          => /\ get_variable(StNext, scope', "x") # 0
             /\ SameContent(bindings'[get_variable(StNext, scope', "x")].value,
                            bindings[get_variable(St, scope, "x")].value)]_vars

----------------------------------------------------------------------------
(* Programs of array literals and indexing                                 *)

\* the literals `[e1, ..., en]` of 1 to MaxElements integers
ArrayLiterals ==
    {ArrayExpr([j \in 1..Len(elems) |-> IntegerExpr(elems[j])]) :
        elems \in UNION {[1..m -> 1..MaxInt] : m \in 1..MaxElements}}

\* `i` and `-i` as the parser gives them
IndexLiterals ==
    {IntegerExpr(i) : i \in 0..(MaxElements + 1)}
      \cup {UnaryOpExpr(IntegerExpr(i), "Minus") : i \in 1..(MaxElements + 1)}

\* `var var a = [e1, ..., en]!`
DeclareArray ==
    \E literal \in ArrayLiterals :
        /\ status = "running"
        /\ Step(VariableExpr("a", literal, VarVar, 1))

\* `a[i]!`
IndexStmt ==
    \E idx \in IndexLiterals :
        /\ status = "running"
        /\ Step(IndexExpr(IdentifierExpr("a"), idx))

\* `print(a[i])!`
PrintIndexStmt ==
    \E idx \in IndexLiterals :
        /\ status = "running"
        /\ Step(CallExpr(IdentifierExpr("print"), <<IndexExpr(IdentifierExpr("a"), idx)>>))

NextIndex == DeclareArray \/ IndexStmt \/ PrintIndexStmt

SpecIndex == Init /\ [][NextIndex]_vars

\* the Array that a is bound to
ArrayOfA == arrayobjs[bindings[get_variable(St, scope, "a")].value.i]

\* The step evaluated `a[i]` with a bound to an Array of n >= 1 elements
\* and -n <= i < n
IsIndexInBounds ==
    /\ status = "running"
    /\ last'.stmt.k = "IndexExpr"
    /\ get_variable(St, scope, "a") # 0
    /\ bindings[get_variable(St, scope, "a")].value.type = "Array"
    /\ Cardinality(DOMAIN ArrayOfA.values) >= 1
    /\ visit(St, last'.stmt.index).v.i >= 0 - Cardinality(DOMAIN ArrayOfA.values)
    /\ visit(St, last'.stmt.index).v.i < Cardinality(DOMAIN ArrayOfA.values)

\* C30: for an array built from a literal of n >= 1 elements, indexing it
\* with an integer i such that -n <= i < n returns one of the n elements
\* and never Undefined.
C30_IndexInBoundsIsPopulated ==
    [][IsIndexInBounds
          => /\ status' = "running"
             /\ last'.v.type # "Undefined"
             /\ \E key \in DOMAIN ArrayOfA.values :
                    SameContent(last'.v, ArrayOfA.values[key])]_vars

----------------------------------------------------------------------------
(* Programs of tier-1 comparisons                                          *)

\* `const const x = 1!` and `var var a = [1, 2]!`
DeclareCompared ==
    \E e \in {VariableExpr("x", IntegerExpr(1), ConstConst, 1),
              VariableExpr("a", ArrayExpr(<<IntegerExpr(1), IntegerExpr(2)>>), VarVar, 1)} :
        /\ status = "running"
        /\ Step(e)

\* the left operands with their operators: a number and a text under `==`
\* and `!=`, a name without binding under `=` and its negated form
LeftCompared ==
    ({IntegerExpr(1), StringExpr("s")} \X {"Eq", "NEq"})
      \cup ({IdentifierExpr("z")} \X {"Assign", "NAssign"})

\* the right operands: a name, two special identifiers, `previous x` and
\* `a[0]`
RightCompared ==
    {IdentifierExpr("x"), IdentifierExpr("true"), IdentifierExpr("null"),
     PreviousExpr(IdentifierExpr("x")),
     IndexExpr(IdentifierExpr("a"), IntegerExpr(0))}

\* `lhs = rhs!`, `lhs == rhs!` and their negated forms
Tier1Stmt ==
    \E left \in LeftCompared, rhs \in RightCompared :
        /\ status = "running"
        /\ Step(BinaryOpExpr(left[1], rhs, left[2]))

\* `a[0] = n!`
AssignIndexStmt ==
    \E n \in 1..MaxInt :
        /\ status = "running"
        /\ Step(BinaryOpExpr(IndexExpr(IdentifierExpr("a"), IntegerExpr(0)),
                             IntegerExpr(n), "Assign"))

NextCmp == DeclareCompared \/ Tier1Stmt \/ AssignIndexStmt

SpecCmp == Init /\ [][NextCmp]_vars

\* The step evaluated a tier-1 comparison: `==` or `!=`, or `=` or its
\* negated form on a left operand that is no index target and has no binding
IsTier1Comparison ==
    /\ status = "running"
    /\ last'.stmt.k = "BinaryOpExpr"
    /\ last'.stmt.op \in {"Assign", "Eq", "NAssign", "NEq"}
    /\ last'.stmt.op = "Assign" =>
           /\ last'.stmt.lhs.k # "IndexExpr"
           /\ visit(St, last'.stmt.lhs).v.ref = 0

\* C29: evaluating a tier-1 comparison changes no binding and no array
\* element, and each of the identifiers true, false, maybe, null and
\* undefined evaluates to the same value after the comparison as before it.
C29_Tier1ComparisonHasNoSideEffect ==
    [][IsTier1Comparison
          => /\ bindings' = bindings
             /\ arrayobjs' = arrayobjs
             /\ \A name \in SPECIAL_NAMES :
                    visit(StNext, IdentifierExpr(name)).v = visit(St, IdentifierExpr(name)).v]_vars

====
